---- MODULE Spec2Model ----
(***************************************************************************)
(* Token ledger and tool dispatch of the NBP exchange MCP server.          *)
(*                                                                         *)
(* The ledger (users, transactions, mcp_actions) is the only shared state. *)
(* Every invocation is a small sequential process whose steps are the      *)
(* awaited storage and upstream calls of the handlers; the steps of        *)
(* different invocations interleave freely.                                *)
(***************************************************************************)
EXTENDS Integers, Sequences, FiniteSets, TLC

\* ---------------------------------------------------------------- bounds
MaxBalance == 1
MaxAmount == 2
\* The maxSize given to the LRUCache whose operations are checked one by
\* one, and the last reading of Date.now() in those checks.
CacheCapacity == 2
MaxClock == 2

\* ------------------------------------------------------------- constants
TOOL_COST == 1
MAX_RANGE_DAYS == 93
MaxRetries == 3
\* 1000 * 60 * 60 * 24 ms; times are kept in seconds here, which divides
\* both sides of every quotient by 1000 and keeps it within 32 bits.
SECONDS_PER_DAY == 60 * 60 * 24

Users == {"u1", "u2"}
\* The requests in flight at the same time.
Invocations == {"r1", "r2"}
SERVER_NAME == "nbp-exchange-mcp"

\* Caller-chosen idempotency keys of direct Token Consumer calls; the ids
\* made by crypto.randomUUID() are <<"uuid", request, n>>.
CallerKeys == {<<"key", "k1", 0>>}
NoId == <<"none", "", 0>>

\* Date pairs <<startDate, endDate>> offered to getCurrencyHistory, as day
\* numbers: a 93 day span, a 94 day span and an end before the start.
HistoryRanges == {<<0, 93>>, <<0, 94>>, <<1, 0>>}
NoRange == <<0, 0>>

\* JSON-RPC 2.0 error codes returned by the API-key protocol adapter.
PARSE_ERROR == -32700
INVALID_REQUEST == -32600
METHOD_NOT_FOUND == -32601
INVALID_PARAMS == -32602
INTERNAL_ERROR == -32603
\* Capacity of the module-level cache of McpServer instances.
MAX_CACHED_SERVERS == 1000

\* Request ids sent by clients; Undefined is the value of a property that
\* is missing, which JSON.stringify leaves out of the response.
RequestIds == {"1", "2"}
Undefined == "undefined"
\* The tools registered with the server, and a name that is not.
ToolNames == {"getCurrencyRate", "getGoldPrice", "getCurrencyHistory"}
UnknownTool == "getBondYield"
\* The methods the adapter serves, and one it does not.
Methods == {"initialize", "ping", "tools/list", "tools/call"}
UnknownMethod == "resources/list"

\* A request body.  body is "garbage" when the text is not JSON, "null"
\* when it is the JSON value null, and "object" when it is a JSON object
\* with the remaining fields (name and range are params.name and the dates
\* of params.arguments).
Envelope(body, jsonrpc, id, method, name, range) ==
    [body |-> body, jsonrpc |-> jsonrpc, id |-> id, method |-> method,
     name |-> name, range |-> range]
NoRequest == Envelope("none", Undefined, Undefined, Undefined, Undefined, NoRange)

\* The bodies posted to /mcp: two that are no JSON-RPC object, a
\* notification, a wrong version, every method, and every tool.
Requests ==
    {Envelope("garbage", Undefined, Undefined, Undefined, Undefined, NoRange),
     Envelope("null", Undefined, Undefined, Undefined, Undefined, NoRange),
     Envelope("object", "2.0", Undefined, "ping", Undefined, NoRange),
     Envelope("object", "1.0", "1", "tools/call", "getCurrencyRate", NoRange),
     Envelope("object", "2.0", "1", "tools/call", "getGoldPrice", NoRange),
     Envelope("object", "2.0", "1", "tools/call", UnknownTool, NoRange)}
    \cup {Envelope("object", "2.0", "1", m, Undefined, NoRange) :
              m \in (Methods \cup {UnknownMethod})}
    \cup {Envelope("object", "2.0", id, "tools/call", "getCurrencyRate", NoRange) :
              id \in RequestIds}
    \cup {Envelope("object", "2.0", "1", "tools/call", "getCurrencyHistory", range) :
              range \in {<<0, 93>>, <<0, 94>>}}

\* serverCache is the module-level LRU cache of the API-key handler,
\* clock the value of Date.now() and sessions the USER_SESSIONS key-value
\* namespace of the custom login.
VARIABLES users, transactions, mcp_actions, inv, serverCache, clock, sessions

vars == <<users, transactions, mcp_actions, inv, serverCache, clock, sessions>>

\* The session store, configured and empty.
NoSessions == [configured |-> TRUE, store |-> {}]

\* ---------------------------------------------------------- pure helpers

\* An id generator that hands out the same value every time.
randomUUID_Constant(i, n) == <<"uuid", "r1", 0>>

\* crypto.randomUUID(): a value never handed out before; the n-th id drawn
\* by request i.
randomUUID(i, n) == <<"uuid", i, n>>

\* new Date(d).getTime() for a YYYY-MM-DD date given as a day number.
getTime(day) == day * SECONDS_PER_DAY

\* Math.ceil(x / y) for y > 0.
MathCeilDiv(x, y) == -((-x) \div y)

\* nbp-tools.ts: daysDiff of the requested range.
daysDiff(range) == MathCeilDiv(getTime(range[2]) - getTime(range[1]), SECONDS_PER_DAY)

\* The pre-validation verdict of executeGetCurrencyHistory.
PreValidation(range) ==
    IF daysDiff(range) > MAX_RANGE_DAYS THEN "range_too_long"
    ELSE IF daysDiff(range) < 0 THEN "end_before_start"
    ELSE "ok"

\* ------------------------------------------------------- Balance Checker

\* A balance read that lets a user without a row through.
checkTokenBalance_MissingUserPasses(us, userId, requiredTokens) ==
    IF userId \notin DOMAIN us
    THEN [sufficient |-> TRUE, currentBalance |-> requiredTokens,
          required |-> requiredTokens, userDeleted |-> FALSE]
    ELSE [sufficient |-> us[userId].current_token_balance >= requiredTokens,
          currentBalance |-> us[userId].current_token_balance,
          required |-> requiredTokens, userDeleted |-> FALSE]

\* A balance read that reports every balance as enough.
checkTokenBalance_AlwaysSufficient(us, userId, requiredTokens) ==
    IF userId \notin DOMAIN us
    THEN [sufficient |-> FALSE, currentBalance |-> 0,
          required |-> requiredTokens, userDeleted |-> FALSE]
    ELSE [sufficient |-> TRUE,
          currentBalance |-> us[userId].current_token_balance,
          required |-> requiredTokens, userDeleted |-> FALSE]

\* tokenUtils.ts checkTokenBalance: a fresh read of the user's row.
checkTokenBalance(us, userId, requiredTokens) ==
    IF userId \notin DOMAIN us
    THEN [sufficient |-> FALSE, currentBalance |-> 0,
          required |-> requiredTokens, userDeleted |-> FALSE]
    ELSE [sufficient |-> us[userId].current_token_balance >= requiredTokens,
          currentBalance |-> us[userId].current_token_balance,
          required |-> requiredTokens, userDeleted |-> FALSE]

\* tokenConsumption checkBalance: the soft-delete flag wins over the balance.
checkBalance(us, userId, requiredTokens) ==
    IF userId \in DOMAIN us /\ us[userId].is_deleted
    THEN [sufficient |-> FALSE, currentBalance |-> 0,
          required |-> requiredTokens, userDeleted |-> TRUE]
    ELSE checkTokenBalance(us, userId, requiredTokens)

\* -------------------------------------------------------- Token Consumer

\* UPDATE users with the tool cost hard-coded instead of the amount passed in.
UpdateUsers_ToolCostOnly(us, userId, tokenAmount) ==
    IF userId \in DOMAIN us
    THEN [us EXCEPT ![userId].current_token_balance = @ - TOOL_COST,
                    ![userId].total_tokens_used = @ + TOOL_COST]
    ELSE us

\* An UPDATE that forgets the lifetime-used counter.
UpdateUsers_BalanceOnly(us, userId, tokenAmount) ==
    IF userId \in DOMAIN us
    THEN [us EXCEPT ![userId].current_token_balance = @ - tokenAmount]
    ELSE us

\* deductTokens, statement 1 of the batch: UPDATE users.
UpdateUsers(us, userId, tokenAmount) ==
    IF userId \in DOMAIN us
    THEN [us EXCEPT ![userId].current_token_balance = @ - tokenAmount,
                    ![userId].total_tokens_used = @ + tokenAmount]
    ELSE us

\* The transaction row of the reported defect: the amount is subtracted again
\* from the row that statement 1 has already updated.
TransactionRow_DoubleSubtract(usAfterUpdate, transactionId, userId, tokenAmount) ==
    [transaction_id |-> transactionId,
     user_id |-> userId,
     type |-> "usage",
     token_amount |-> -tokenAmount,
     balance_after |-> usAfterUpdate[userId].current_token_balance - tokenAmount]

\* deductTokens, statement 2 of the batch: the transaction row; balance_after
\* is selected from the users row as statement 1 left it.
TransactionRow(usAfterUpdate, transactionId, userId, tokenAmount) ==
    [transaction_id |-> transactionId,
     user_id |-> userId,
     type |-> "usage",
     token_amount |-> -tokenAmount,
     balance_after |-> usAfterUpdate[userId].current_token_balance]

\* deductTokens, statement 3 of the batch: the action-log row.
ActionRow(actionId, userId, toolName, tokenAmount) ==
    [action_id |-> actionId,
     user_id |-> userId,
     mcp_server_name |-> SERVER_NAME,
     tool_name |-> toolName,
     tokens_consumed |-> tokenAmount,
     success |-> 1]

\* A validation that also turns away amounts above the current balance.
ValidDeduction_ChecksBalance(userId, tokenAmount, serverName, toolName) ==
    /\ tokenAmount > 0
    /\ userId # ""
    /\ serverName # ""
    /\ toolName # ""
    /\ userId \in DOMAIN users => users[userId].current_token_balance >= tokenAmount

\* deductTokens input validation.
ValidDeduction(userId, tokenAmount, serverName, toolName) ==
    /\ tokenAmount > 0
    /\ userId # ""
    /\ serverName # ""
    /\ toolName # ""

\* A consumer that never looks the action id up.
AlreadyProcessed_Never(actions, actionId) == FALSE

\* Idempotency: an action-log row with this action id already exists.
AlreadyProcessed(actions, actionId) ==
    \E k \in 1 .. Len(actions) : actions[k].action_id = actionId

\* --------------------------------------------------------- invocations

IdleInvocation ==
    [pc |-> "idle", kind |-> "none", userId |-> "", serverName |-> "",
     toolName |-> "",
     toolCost |-> 0, actionId |-> NoId, range |-> NoRange,
     balanceCheck |-> checkTokenBalance(<<>>, "", 0),
     attempt |-> 0, result |-> "none", consumerError |-> FALSE,
     executeFailed |-> FALSE,
     nChecks |-> 0, nExecutions |-> 0, nCommits |-> 0,
     request |-> NoRequest, cacheHit |-> FALSE, credential |-> Undefined,
     times |-> <<0, 0>>, oauthReq |-> Undefined]

\* What the catch block that encloses the invocation's awaits returns: an
\* isError tool result, a JSON-RPC internal error, or (for a direct call of
\* the Token Consumer) the exception itself.
CatchResult(kind) ==
    CASE kind = "executor" -> "tool_error"
      [] kind = "history" -> "tool_error"
      [] kind = "apikey_history" -> "rpc_internal_error"
      [] OTHER -> "fatal"

\* A result that is recorded without leaving the workflow.
Return_NoExit(r, res) == [r EXCEPT !.result = res]

\* A return statement: the invocation is over with this result.
Return(r, res) == [r EXCEPT !.pc = "done", !.result = res]

\* tokenUtils.ts formatInsufficientTokensError: the text names the tool, the
\* balance read by the check and the tokens required.
formatInsufficientTokensError(toolName, currentBalance, requiredTokens) ==
    <<"insufficient_tokens", toolName, currentBalance, requiredTokens>>

\* The text of the insufficient-balance result the dispatcher returns.
ResultText(r) ==
    IF r.result = "insufficient_tokens"
    THEN formatInsufficientTokensError(r.toolName, r.balanceCheck.currentBalance,
                                       r.toolCost)
    ELSE <<r.result>>

\* The two rejections tested in the opposite order.
DispatchOnBalance_InsufficientFirst(r, bc) ==
    IF ~bc.sufficient THEN Return(r, "insufficient_tokens")
    ELSE IF bc.userDeleted THEN Return(r, "account_deleted")
    ELSE [r EXCEPT !.pc = "execute"]

\* Steps 3a, 3b and 4 of the workflow: what follows the balance check.
DispatchOnBalance(r, bc) ==
    IF bc.userDeleted THEN Return(r, "account_deleted")
    ELSE IF ~bc.sufficient THEN Return(r, "insufficient_tokens")
    ELSE [r EXCEPT !.pc = "execute"]

\* The exception of the business logic swallowed: the workflow goes on.
OnExecuteError_Continue(r) == [r EXCEPT !.pc = "consume"]

\* Step 7: the business logic threw; nothing after it runs.
OnExecuteError(r) == Return(r, CatchResult(r.kind))

\* The upstream rate service answers range queries only within its limit.
UpstreamAccepts(r) ==
    r.kind \in {"history", "apikey_history"} => PreValidation(r.range) = "ok"

\* deductTokens makes one attempt; consumeTokensWithRetry makes MaxRetries.
MaxAttempts(kind) == IF kind = "deduct" THEN 1 ELSE MaxRetries

\* The retry loop with its bound off by one.
AttemptFailed_OffByOne(r) ==
    IF r.attempt + 1 <= MaxRetries
    THEN [r EXCEPT !.pc = "consume", !.attempt = @ + 1]
    ELSE [Return(r, CatchResult(r.kind)) EXCEPT !.attempt = @ + 1,
                                                !.consumerError = TRUE]

\* One attempt of the atomic unit failed: try again or give up.
AttemptFailed(r) ==
    IF r.attempt + 1 < MaxAttempts(r.kind)
    THEN [r EXCEPT !.pc = "consume", !.attempt = @ + 1]
    ELSE [Return(r, CatchResult(r.kind)) EXCEPT !.attempt = @ + 1,
                                                !.consumerError = TRUE]

\* A batch whose third statement is lost.
deductBatch_NoActionLog(us, txs, acts, transactionId, actionId, userId, toolName, tokenAmount) ==
    [users |-> UpdateUsers(us, userId, tokenAmount),
     transactions |->
        Append(txs, TransactionRow(UpdateUsers(us, userId, tokenAmount),
                                   transactionId, userId, tokenAmount)),
     mcp_actions |-> acts]

\* The three statements of db.batch applied as one transaction.
deductBatch(us, txs, acts, transactionId, actionId, userId, toolName, tokenAmount) ==
    [users |-> UpdateUsers(us, userId, tokenAmount),
     transactions |->
        Append(txs, TransactionRow(UpdateUsers(us, userId, tokenAmount),
                                   transactionId, userId, tokenAmount)),
     mcp_actions |-> Append(acts, ActionRow(actionId, userId, toolName, tokenAmount))]

Init ==
    /\ users \in [Users -> [current_token_balance : 0 .. MaxBalance,
                            total_tokens_used : {0},
                            total_tokens_purchased : 0 .. MaxBalance,
                            is_deleted : BOOLEAN]]
    /\ \A u \in Users :
         users[u].total_tokens_purchased = users[u].current_token_balance
    /\ transactions = <<>>
    /\ mcp_actions = <<>>
    /\ inv = [i \in Invocations |-> IdleInvocation]
    /\ serverCache = <<>>
    /\ clock = 0
    /\ sessions = NoSessions

LedgerUnchanged == UNCHANGED <<users, transactions, mcp_actions>>
CacheUnchanged == UNCHANGED <<serverCache, clock>>
SessionsUnchanged == UNCHANGED sessions

\* server.ts: a registered simple tool hands the call to
\* executeToolWithTokenConsumption, which first draws the action id.
StartExecutor(i, u, tool) ==
    /\ inv[i].pc = "idle"
    /\ inv' = [inv EXCEPT ![i] =
                 [@ EXCEPT !.pc = "check", !.kind = "executor", !.serverName = SERVER_NAME, !.userId = u,
                           !.toolName = tool, !.toolCost = TOOL_COST,
                           !.actionId = randomUUID(i, 0)]]
    /\ LedgerUnchanged
    /\ CacheUnchanged
    /\ SessionsUnchanged

\* nbp-tools.ts executeGetCurrencyHistory up to its first await: the action
\* id and the pre-validation of the date range.
StartHistory(i, u, range) ==
    /\ inv[i].pc = "idle"
    /\ LET r == [inv[i] EXCEPT !.kind = "history", !.serverName = SERVER_NAME, !.userId = u,
                               !.toolName = "getCurrencyHistory",
                               !.toolCost = TOOL_COST, !.range = range,
                               !.actionId = randomUUID(i, 0)]
       IN inv' = [inv EXCEPT ![i] =
                    IF PreValidation(range) # "ok"
                    THEN Return(r, "validation_error")
                    ELSE [r EXCEPT !.pc = "check"]]
    /\ LedgerUnchanged
    /\ CacheUnchanged
    /\ SessionsUnchanged

\* api-key-handler.ts executeCurrencyHistoryTool (JSON-RPC tools/call): the
\* action id, then straight to the balance check.
StartApiKeyHistory(i, u, range) ==
    /\ inv[i].pc = "idle"
    /\ inv' = [inv EXCEPT ![i] =
                 [@ EXCEPT !.pc = "check", !.kind = "apikey_history", !.serverName = SERVER_NAME,
                           !.userId = u, !.toolName = "getCurrencyHistory",
                           !.toolCost = TOOL_COST, !.range = range,
                           !.actionId = randomUUID(i, 0)]]
    /\ LedgerUnchanged
    /\ CacheUnchanged
    /\ SessionsUnchanged

\* api-key-handler.ts executeCurrencyRateTool (JSON-RPC tools/call): the
\* tool is free on this path; no action id, no balance check.
StartApiKeyRate(i, u) ==
    /\ inv[i].pc = "idle"
    /\ inv' = [inv EXCEPT ![i] =
                 [@ EXCEPT !.pc = "execute_free", !.kind = "apikey_rate", !.serverName = SERVER_NAME,
                           !.userId = u, !.toolName = "getCurrencyRate"]]
    /\ LedgerUnchanged
    /\ CacheUnchanged
    /\ SessionsUnchanged

\* A caller invokes consumeTokensWithRetry itself with its own action id.
StartConsume(i, u, amount, key) ==
    /\ inv[i].pc = "idle"
    /\ inv' = [inv EXCEPT ![i] =
                 [@ EXCEPT !.pc = "consume", !.kind = "direct", !.serverName = SERVER_NAME, !.userId = u,
                           !.toolName = "getCurrencyRate", !.toolCost = amount,
                           !.actionId = key]]
    /\ LedgerUnchanged
    /\ CacheUnchanged
    /\ SessionsUnchanged

\* A caller invokes deductTokens, which draws the action id itself.
StartDeduct(i, u, amount) ==
    /\ inv[i].pc = "idle"
    /\ inv' = [inv EXCEPT ![i] =
                 [@ EXCEPT !.pc = "consume", !.kind = "deduct", !.serverName = SERVER_NAME, !.userId = u,
                           !.toolName = "getCurrencyRate", !.toolCost = amount,
                           !.actionId = randomUUID(i, 0)]]
    /\ LedgerUnchanged
    /\ CacheUnchanged
    /\ SessionsUnchanged

\* A balance check that puts the required tokens on hold.
CheckBalance_Reserves(i) ==
    /\ inv[i].pc = "check"
    /\ LET bc == checkBalance(users, inv[i].userId, inv[i].toolCost)
       IN inv' = [inv EXCEPT ![i] =
                    DispatchOnBalance([@ EXCEPT !.balanceCheck = bc,
                                                !.nChecks = @ + 1], bc)]
    /\ users' = UpdateUsers(users, inv[i].userId, inv[i].toolCost)
    /\ UNCHANGED <<transactions, mcp_actions>>
    /\ CacheUnchanged
    /\ SessionsUnchanged

\* Step 2 and the branches on its result.
CheckBalance(i) ==
    /\ inv[i].pc = "check"
    /\ LET bc == checkBalance(users, inv[i].userId, inv[i].toolCost)
       IN inv' = [inv EXCEPT ![i] =
                    DispatchOnBalance([@ EXCEPT !.balanceCheck = bc,
                                                !.nChecks = @ + 1], bc)]
    /\ LedgerUnchanged
    /\ CacheUnchanged
    /\ SessionsUnchanged

\* The balance read throws.
CheckBalanceFail(i) ==
    /\ inv[i].pc = "check"
    /\ inv' = [inv EXCEPT ![i] =
                 Return([@ EXCEPT !.nChecks = @ + 1], CatchResult(@.kind))]
    /\ LedgerUnchanged
    /\ CacheUnchanged
    /\ SessionsUnchanged

\* The workflow going on to the consumption without running the callback.
Execute_Skipped(i) ==
    /\ inv[i].pc = "execute"
    /\ UpstreamAccepts(inv[i])
    /\ inv' = [inv EXCEPT ![i] = [@ EXCEPT !.pc = "consume"]]
    /\ LedgerUnchanged
    /\ CacheUnchanged
    /\ SessionsUnchanged

\* Step 4: the business logic returns a result.
Execute(i) ==
    /\ inv[i].pc = "execute"
    /\ UpstreamAccepts(inv[i])
    /\ inv' = [inv EXCEPT ![i] =
                 [@ EXCEPT !.pc = "consume", !.nExecutions = @ + 1]]
    /\ LedgerUnchanged
    /\ CacheUnchanged
    /\ SessionsUnchanged

\* Step 4: the business logic (or the shaping of its output) throws.
ExecuteFail(i) ==
    /\ inv[i].pc = "execute"
    /\ inv' = [inv EXCEPT ![i] =
                 OnExecuteError([@ EXCEPT !.nExecutions = @ + 1,
                                          !.executeFailed = TRUE])]
    /\ LedgerUnchanged
    /\ CacheUnchanged
    /\ SessionsUnchanged

\* The free tool: the upstream answers and the result is returned.
ExecuteFree(i) ==
    /\ inv[i].pc = "execute_free"
    /\ inv' = [inv EXCEPT ![i] =
                 Return([@ EXCEPT !.nExecutions = @ + 1], "success")]
    /\ LedgerUnchanged
    /\ CacheUnchanged
    /\ SessionsUnchanged

\* The free tool: the upstream call throws and the tool's own catch block
\* returns an isError result.
ExecuteFreeFail(i) ==
    /\ inv[i].pc = "execute_free"
    /\ inv' = [inv EXCEPT ![i] =
                 Return([@ EXCEPT !.nExecutions = @ + 1, !.executeFailed = TRUE],
                        "tool_error")]
    /\ LedgerUnchanged
    /\ CacheUnchanged
    /\ SessionsUnchanged

\* Token Consumer: the inputs are rejected before any statement runs.
ConsumeInvalid(i) ==
    /\ inv[i].pc = "consume"
    /\ ~ValidDeduction(inv[i].userId, inv[i].toolCost, inv[i].serverName, inv[i].toolName)
    /\ inv' = [inv EXCEPT ![i] =
                 [Return(@, CatchResult(@.kind)) EXCEPT !.consumerError = TRUE]]
    /\ LedgerUnchanged
    /\ CacheUnchanged
    /\ SessionsUnchanged

\* Token Consumer: the action id is already logged, nothing is applied.
ConsumeShortCircuit(i) ==
    /\ inv[i].pc = "consume"
    /\ inv[i].kind # "deduct"
    /\ ValidDeduction(inv[i].userId, inv[i].toolCost, inv[i].serverName, inv[i].toolName)
    /\ AlreadyProcessed(mcp_actions, inv[i].actionId)
    /\ inv' = [inv EXCEPT ![i] = Return(@, "success")]
    /\ LedgerUnchanged
    /\ CacheUnchanged
    /\ SessionsUnchanged

\* A batch that commits only while the balance still covers the amount.
ConsumeBatch_Rechecks(i) ==
    /\ inv[i].pc = "consume"
    /\ ValidDeduction(inv[i].userId, inv[i].toolCost, inv[i].serverName, inv[i].toolName)
    /\ inv[i].kind = "deduct" \/ ~AlreadyProcessed(mcp_actions, inv[i].actionId)
    /\ users[inv[i].userId].current_token_balance >= inv[i].toolCost
    /\ LET b == deductBatch(users, transactions, mcp_actions,
                            randomUUID(i, inv[i].attempt + 1), inv[i].actionId,
                            inv[i].userId, inv[i].toolName, inv[i].toolCost)
       IN /\ users' = b.users
          /\ transactions' = b.transactions
          /\ mcp_actions' = b.mcp_actions
    /\ inv' = [inv EXCEPT ![i] = [@ EXCEPT !.pc = "reread", !.nCommits = @ + 1]]
    /\ CacheUnchanged
    /\ SessionsUnchanged

\* Token Consumer: the batch commits.
ConsumeBatch(i) ==
    /\ inv[i].pc = "consume"
    /\ ValidDeduction(inv[i].userId, inv[i].toolCost, inv[i].serverName, inv[i].toolName)
    /\ inv[i].kind = "deduct" \/ ~AlreadyProcessed(mcp_actions, inv[i].actionId)
    /\ LET b == deductBatch(users, transactions, mcp_actions,
                            randomUUID(i, inv[i].attempt + 1), inv[i].actionId,
                            inv[i].userId, inv[i].toolName, inv[i].toolCost)
       IN /\ users' = b.users
          /\ transactions' = b.transactions
          /\ mcp_actions' = b.mcp_actions
    /\ inv' = [inv EXCEPT ![i] = [@ EXCEPT !.pc = "reread", !.nCommits = @ + 1]]
    /\ CacheUnchanged
    /\ SessionsUnchanged

\* Token Consumer: a storage failure before the batch commits; the batch
\* is rolled back as a whole.
ConsumeBatchFail(i) ==
    /\ inv[i].pc = "consume"
    /\ ValidDeduction(inv[i].userId, inv[i].toolCost, inv[i].serverName, inv[i].toolName)
    /\ inv' = [inv EXCEPT ![i] = AttemptFailed(@)]
    /\ LedgerUnchanged
    /\ CacheUnchanged
    /\ SessionsUnchanged

\* deductTokens after the batch: the changes count and the balance re-read.
RereadBalance(i) ==
    /\ inv[i].pc = "reread"
    /\ inv' = [inv EXCEPT ![i] =
                 IF inv[i].userId \in DOMAIN users
                 THEN Return(@, "success")
                 ELSE AttemptFailed(@)]
    /\ LedgerUnchanged
    /\ CacheUnchanged
    /\ SessionsUnchanged

\* deductTokens after the batch: the balance re-read fails.
RereadFail(i) ==
    /\ inv[i].pc = "reread"
    /\ inv' = [inv EXCEPT ![i] = AttemptFailed(@)]
    /\ LedgerUnchanged
    /\ CacheUnchanged
    /\ SessionsUnchanged

ConsumerStep(i) ==
    \/ ConsumeShortCircuit(i)
    \/ ConsumeBatch(i)
    \/ ConsumeBatchFail(i)
    \/ RereadBalance(i)
    \/ RereadFail(i)

DispatchStep(i) ==
    \/ CheckBalance(i)
    \/ CheckBalanceFail(i)
    \/ Execute(i)
    \/ ExecuteFail(i)

FreeToolStep(i) ==
    \/ ExecuteFree(i)
    \/ ExecuteFreeFail(i)

\* Tool invocations arriving through the registered tools and tools/call.
Next ==
    \/ \E i \in Invocations, u \in Users : StartExecutor(i, u, "getCurrencyRate")
    \/ \E i \in Invocations, u \in Users, range \in HistoryRanges :
          StartHistory(i, u, range)
    \/ \E i \in Invocations, u \in Users, range \in HistoryRanges :
          StartApiKeyHistory(i, u, range)
    \/ \E i \in Invocations, u \in Users : StartApiKeyRate(i, u)
    \/ \E i \in Invocations : DispatchStep(i)
    \/ \E i \in Invocations : FreeToolStep(i)
    \/ \E i \in Invocations : ConsumerStep(i)

Spec == Init /\ [][Next]_vars

\* The Token Consumer called on its own.
ConsumerNext ==
    \/ \E i \in Invocations, u \in Users, n \in 0 .. MaxAmount, key \in CallerKeys :
          StartConsume(i, u, n, key)
    \/ \E i \in Invocations, u \in Users, n \in 0 .. MaxAmount : StartDeduct(i, u, n)
    \/ \E i \in Invocations : ConsumeInvalid(i)
    \/ \E i \in Invocations : ConsumerStep(i)

ConsumerSpec == Init /\ [][ConsumerNext]_vars

\* Every awaited storage call settles, so a started consumption keeps going.
ConsumerLiveSpec ==
    ConsumerSpec /\ \A i \in Invocations : WF_vars(ConsumeInvalid(i) \/ ConsumerStep(i))

\* Every awaited storage and upstream call of a tool invocation settles.
LiveSpec ==
    Spec /\ \A i \in Invocations : WF_vars(DispatchStep(i) \/ FreeToolStep(i) \/ ConsumerStep(i))

\* deductTokens takes a JavaScript number as its amount.  To write a
\* non-integer amount, the specification below counts every token quantity
\* (balances, amounts, log rows) in NumberUnits-ths of a token: 1 stands for
\* half a token and 2 for one token.
NumberUnits == 2
IsInteger(x) == x % NumberUnits = 0
\* The amounts -1, 0, 0.5 and 1 and the identifiers, empty or not, passed in.
RawAmounts == {-NumberUnits, 0, 1, NumberUnits}
RawUserIds == Users \cup {""}
RawServerNames == {SERVER_NAME, ""}
RawToolNames == {"getCurrencyRate", ""}

\* The ledger with whole-token balances, in the units above.
InitRaw ==
    /\ users \in [Users -> [current_token_balance :
                               {NumberUnits * b : b \in 0 .. MaxBalance},
                            total_tokens_used : {0},
                            total_tokens_purchased :
                               {NumberUnits * b : b \in 0 .. MaxBalance},
                            is_deleted : BOOLEAN]]
    /\ \A u \in Users :
         users[u].total_tokens_purchased = users[u].current_token_balance
    /\ transactions = <<>>
    /\ mcp_actions = <<>>
    /\ inv = [i \in Invocations |-> IdleInvocation]
    /\ serverCache = <<>>
    /\ clock = 0
    /\ sessions = NoSessions

\* A caller invokes deductTokens with arbitrary arguments.
StartDeductRaw(i, userId, tokenAmount, serverName, toolName) ==
    /\ inv[i].pc = "idle"
    /\ inv' = [inv EXCEPT ![i] =
                 [@ EXCEPT !.pc = "consume", !.kind = "deduct",
                           !.userId = userId, !.serverName = serverName,
                           !.toolName = toolName, !.toolCost = tokenAmount,
                           !.actionId = randomUUID(i, 0)]]
    /\ LedgerUnchanged
    /\ CacheUnchanged
    /\ SessionsUnchanged

ValidationNext ==
    \/ \E i \in Invocations, u \in RawUserIds, n \in RawAmounts,
          sn \in RawServerNames, tn \in RawToolNames :
          StartDeductRaw(i, u, n, sn, tn)
    \/ \E i \in Invocations : ConsumeInvalid(i)
    \/ \E i \in Invocations : ConsumeBatch(i)
    \/ \E i \in Invocations : ConsumeBatchFail(i)
    \/ \E i \in Invocations : RereadBalance(i)
    \/ \E i \in Invocations : RereadFail(i)

\* deductTokens called with any arguments.
ValidationSpec == InitRaw /\ [][ValidationNext]_vars

\* A user id that has no row in the users table.
NoSuchUser == "u0"

\* The tools also called by an authenticated user whose ledger row is
\* missing.
UnknownUserNext ==
    \/ Next
    \/ \E i \in Invocations : StartExecutor(i, NoSuchUser, "getCurrencyRate")

UnknownUserSpec == Init /\ [][UnknownUserNext]_vars

\* ------------------------------------------ API-key protocol adapter

\* LRUCache: the entries <<key, value, lastAccessed>> in the insertion
\* order of the underlying Map.
CacheKeys(cache) == {cache[n].key : n \in 1 .. Len(cache)}
CacheIndex(cache, key) == CHOOSE n \in 1 .. Len(cache) : cache[n].key = key

\* LRUCache.get on a hit: the entry's lastAccessed becomes Date.now().
CacheTouch(cache, key, now) ==
    [cache EXCEPT ![CacheIndex(cache, key)].lastAccessed = now]

\* LRUCache.evictLRU: the first entry, in insertion order, whose
\* lastAccessed is the smallest is deleted.
evictLRU(cache) ==
    IF cache = <<>> THEN cache
    ELSE LET oldest == CHOOSE n \in 1 .. Len(cache) :
                          /\ \A m \in 1 .. Len(cache) :
                                cache[n].lastAccessed <= cache[m].lastAccessed
                          /\ \A m \in 1 .. (n - 1) :
                                cache[m].lastAccessed > cache[n].lastAccessed
         IN SubSeq(cache, 1, oldest - 1) \o SubSeq(cache, oldest + 1, Len(cache))

\* A set that never evicts.
CacheSet_NoEviction(cache, maxSize, key, value, now) ==
    LET entry == [key |-> key, value |-> value, lastAccessed |-> now]
    IN IF key \in CacheKeys(cache)
       THEN [cache EXCEPT ![CacheIndex(cache, key)] = entry]
       ELSE Append(cache, entry)

\* LRUCache.set: evicts when the cache is full and the key is new, then
\* stores the entry (Map.set keeps the position of an existing key).
CacheSet(cache, maxSize, key, value, now) ==
    LET entry == [key |-> key, value |-> value, lastAccessed |-> now]
        room == IF Len(cache) >= maxSize /\ key \notin CacheKeys(cache)
                THEN evictLRU(cache) ELSE cache
    IN IF key \in CacheKeys(room)
       THEN [room EXCEPT ![CacheIndex(room, key)] = entry]
       ELSE Append(room, entry)

\* new McpServer(...) with its tools registered: the instance captures the
\* user id in the closures of its tools and nothing else of the user.
NewMcpServer(userId) == [userId |-> userId, tools |-> ToolNames]

\* getOrCreateServer: the cached server on a hit, otherwise a new server
\* that is put into the cache.
getOrCreateServer(cache, userId, now) ==
    IF userId \in CacheKeys(cache)
    THEN [hit |-> TRUE, server |-> cache[CacheIndex(cache, userId)].value,
          cache |-> CacheTouch(cache, userId, now)]
    ELSE [hit |-> FALSE, server |-> NewMcpServer(userId),
          cache |-> CacheSet(cache, MAX_CACHED_SERVERS, userId,
                             NewMcpServer(userId), now)]

\* A tools/call router that runs a tool whatever the name.
handleToolsCall_AnyName(i, r, req) ==
    IF req.name = Undefined THEN Return(r, "invalid_params")
    ELSE [r EXCEPT !.pc = "execute_free", !.kind = "apikey_rate",
                   !.serverName = SERVER_NAME, !.toolName = req.name]

\* handleToolsCall up to the first await of the tool it routes to.
handleToolsCall(i, r, req) ==
    IF req.name = Undefined THEN Return(r, "invalid_params")
    ELSE IF req.name \in {"getCurrencyRate", "getGoldPrice"}
    THEN [r EXCEPT !.pc = "execute_free", !.kind = "apikey_rate",
                   !.serverName = SERVER_NAME, !.toolName = req.name]
    ELSE IF req.name = "getCurrencyHistory"
    THEN LET h == [r EXCEPT !.kind = "history", !.serverName = SERVER_NAME,
                            !.toolName = "getCurrencyHistory",
                            !.toolCost = TOOL_COST, !.range = req.range,
                            !.actionId = randomUUID(i, 0)]
         IN IF PreValidation(req.range) # "ok"
            THEN Return(h, "validation_error")
            ELSE [h EXCEPT !.pc = "check"]
    ELSE Return(r, "tool_not_found")

\* A transport that skips the check of the jsonrpc member.
handleHTTPTransport_NoVersionCheck(i, r, req) ==
    IF req.body \in {"garbage", "null"} THEN Return(r, "parse_error")
    ELSE IF req.method \in {"initialize", "ping", "tools/list"}
    THEN Return(r, req.method)
    ELSE IF req.method = "tools/call" THEN handleToolsCall(i, r, req)
    ELSE Return(r, "method_not_found")

\* handleHTTPTransport: request.json() rejects a body that is not JSON and
\* reading a member of null throws; both land in the catch block.
handleHTTPTransport(i, r, req) ==
    IF req.body \in {"garbage", "null"} THEN Return(r, "parse_error")
    ELSE IF req.jsonrpc # "2.0" THEN Return(r, "invalid_request")
    ELSE IF req.method \in {"initialize", "ping", "tools/list"}
    THEN Return(r, req.method)
    ELSE IF req.method = "tools/call" THEN handleToolsCall(i, r, req)
    ELSE Return(r, "method_not_found")

\* The error argument null of jsonRpcResponse.
NoError == [code |-> 0, message |-> "null"]

\* jsonRpcResponse: the serialized body; JSON.stringify drops an id that
\* is undefined.
jsonRpcResponse(id, result, error) ==
    LET head == IF id = Undefined THEN [jsonrpc |-> "2.0"]
                ELSE [jsonrpc |-> "2.0", id |-> id]
    IN IF error # NoError
       THEN head @@ [error |-> error]
       ELSE head @@ [result |-> result]

\* The response body the adapter sends for a finished request.
ResponseOf(r) ==
    LET id == r.request.id
    IN CASE r.result = "parse_error" ->
              jsonRpcResponse("error", "null",
                              [code |-> PARSE_ERROR, message |-> "Parse error"])
         [] r.result = "invalid_request" ->
              jsonRpcResponse(id, "null",
                              [code |-> INVALID_REQUEST, message |-> "Invalid Request"])
         [] r.result = "method_not_found" ->
              jsonRpcResponse(id, "null",
                              [code |-> METHOD_NOT_FOUND, message |-> "Method not found"])
         [] r.result = "invalid_params" ->
              jsonRpcResponse(id, "null",
                              [code |-> INVALID_PARAMS, message |-> "Invalid params"])
         [] r.result = "tool_not_found" ->
              jsonRpcResponse(id, "null",
                              [code |-> METHOD_NOT_FOUND, message |-> "Unknown tool"])
         [] r.result = "rpc_internal_error" ->
              jsonRpcResponse(id, "null",
                              [code |-> INTERNAL_ERROR, message |-> "Tool execution error"])
         [] OTHER -> jsonRpcResponse(id, r.result, NoError)

\* A handler that serves a request only from a cached server.
HandleApiKeyRequest_NeedsCachedServer(i, u, req) ==
    /\ inv[i].pc = "idle"
    /\ \E now \in {clock, clock + 1} :
          LET got == getOrCreateServer(serverCache, u, now)
              r == [inv[i] EXCEPT !.userId = u, !.request = req,
                                  !.cacheHit = got.hit]
          IN /\ clock' = now
             /\ serverCache' = got.cache
             /\ inv' = [inv EXCEPT ![i] =
                          IF got.hit THEN handleHTTPTransport(i, r, req)
                          ELSE Return(r, "parse_error")]
    /\ LedgerUnchanged
    /\ SessionsUnchanged

\* handleApiKeyRequest for a POST to /mcp with a valid key of user u: the
\* server is looked up or created, then the transport handles the body up
\* to the first await of a tool.
HandleApiKeyRequest(i, u, req) ==
    /\ inv[i].pc = "idle"
    /\ \E now \in {clock, clock + 1} :
          LET got == getOrCreateServer(serverCache, u, now)
              r == [inv[i] EXCEPT !.userId = u, !.request = req,
                                  !.cacheHit = got.hit]
          IN /\ clock' = now
             /\ serverCache' = got.cache
             /\ inv' = [inv EXCEPT ![i] = handleHTTPTransport(i, r, req)]
    /\ LedgerUnchanged
    /\ SessionsUnchanged

\* The Worker isolate is evicted from memory: the cache starts empty again.
WorkerEvicted ==
    /\ serverCache # <<>>
    /\ serverCache' = <<>>
    /\ UNCHANGED <<users, transactions, mcp_actions, inv, clock, sessions>>

\* Requests posted to the API-key endpoint.
AdapterNext ==
    \/ \E i \in Invocations, u \in Users, req \in Requests :
          HandleApiKeyRequest(i, u, req)
    \/ WorkerEvicted
    \/ \E i \in Invocations : DispatchStep(i)
    \/ \E i \in Invocations : FreeToolStep(i)
    \/ \E i \in Invocations : ConsumerStep(i)

AdapterSpec == Init /\ [][AdapterNext]_vars

\* ------------------------------------- date ranges with a time of day

\* tools/call hands params.arguments to executeGetCurrencyHistory as they
\* came, so startDate and endDate may carry a time of day.  Instants are
\* getTime() values in seconds: midnight and noon of day 0 and midnight of
\* day 2 as starts; ends around the limit of MAX_RANGE_DAYS.
HALF_DAY == SECONDS_PER_DAY \div 2
HistoryTimes ==
    {<<s, e>> : s \in {0, HALF_DAY, 2 * SECONDS_PER_DAY},
                e \in {0, MAX_RANGE_DAYS * SECONDS_PER_DAY,
                       MAX_RANGE_DAYS * SECONDS_PER_DAY + HALF_DAY,
                       (MAX_RANGE_DAYS + 1) * SECONDS_PER_DAY}}

\* nbp-tools.ts: daysDiff from the two getTime() values.
daysDiffAt(times) == MathCeilDiv(times[2] - times[1], SECONDS_PER_DAY)

\* The pre-validation verdict of executeGetCurrencyHistory for two instants.
PreValidationAt(times) ==
    IF daysDiffAt(times) > MAX_RANGE_DAYS THEN "range_too_long"
    ELSE IF daysDiffAt(times) < 0 THEN "end_before_start"
    ELSE "ok"

\* The calendar day an instant falls on.
DateOf(t) == t \div SECONDS_PER_DAY

\* executeGetCurrencyHistory up to its first await, called with instants.
StartHistoryAt(i, u, times) ==
    /\ inv[i].pc = "idle"
    /\ LET r == [inv[i] EXCEPT !.kind = "history", !.serverName = SERVER_NAME,
                               !.userId = u, !.toolName = "getCurrencyHistory",
                               !.toolCost = TOOL_COST, !.times = times,
                               !.range = <<DateOf(times[1]), DateOf(times[2])>>,
                               !.actionId = randomUUID(i, 0)]
       IN inv' = [inv EXCEPT ![i] =
                    IF PreValidationAt(times) # "ok"
                    THEN Return(r, "validation_error")
                    ELSE [r EXCEPT !.pc = "check"]]
    /\ LedgerUnchanged
    /\ CacheUnchanged
    /\ SessionsUnchanged

\* getCurrencyHistory called with every kind of range.
HistoryNext ==
    \/ \E i \in Invocations, u \in Users, times \in HistoryTimes :
          StartHistoryAt(i, u, times)
    \/ \E i \in Invocations : DispatchStep(i)
    \/ \E i \in Invocations : ConsumerStep(i)

HistorySpec == Init /\ [][HistoryNext]_vars

\* ------------------------------------------------------- LRUCache

\* The keys offered to the cache: two more than it can hold.
LruKeys == {"u1", "u2", "u3", "u4"}

\* A millisecond passes.
Tick ==
    /\ clock < MaxClock
    /\ clock' = clock + 1
    /\ UNCHANGED <<users, transactions, mcp_actions, inv, serverCache, sessions>>

\* LRUCache.get(key): a hit refreshes lastAccessed, a miss changes nothing.
LruGet(key) ==
    /\ serverCache' = IF key \in CacheKeys(serverCache)
                      THEN CacheTouch(serverCache, key, clock)
                      ELSE serverCache
    /\ UNCHANGED <<users, transactions, mcp_actions, inv, clock, sessions>>

\* LRUCache.set(key, value) on a cache built with maxSize CacheCapacity.
LruSet(key) ==
    /\ serverCache' = CacheSet(serverCache, CacheCapacity, key,
                               NewMcpServer(key), clock)
    /\ UNCHANGED <<users, transactions, mcp_actions, inv, clock, sessions>>

\* Any sequence of get and set operations, at any pace of the clock.
LruNext ==
    \/ Tick
    \/ \E key \in LruKeys : LruGet(key)
    \/ \E key \in LruKeys : LruSet(key)

LruSpec == Init /\ [][LruNext]_vars

\* ------------------------------------------------- authentication

\* The tools/call bodies sent along with the credentials.
AuthRequests ==
    {req \in Requests :
        req.body = "object" /\ req.jsonrpc = "2.0" /\ req.name \in ToolNames}

\* The API keys issued to the users.
ApiKeyOwner == [k \in {"key-u1", "key-u2"} |-> IF k = "key-u1" THEN "u1" ELSE "u2"]
\* Authorization headers: none, one without a key, one with a key that
\* was never issued, and the issued keys.
AuthHeaders == {Undefined, "Bearer ", "Bearer key-x", "Bearer key-u1", "Bearer key-u2"}
\* An extraction that falls back to an issued key when none was sent.
ExtractApiKey_FallbackKey(header) ==
    CASE header = Undefined -> "key-u1"
      [] header = "Bearer " -> "key-u1"
      [] header = "Bearer key-x" -> "key-x"
      [] header = "Bearer key-u1" -> "key-u1"
      [] header = "Bearer key-u2" -> "key-u2"

\* authHeader?.replace("Bearer ", ""): the key, "" when there is none.
ExtractApiKey(header) ==
    CASE header = Undefined -> ""
      [] header = "Bearer " -> ""
      [] header = "Bearer key-x" -> "key-x"
      [] header = "Bearer key-u1" -> "key-u1"
      [] header = "Bearer key-u2" -> "key-u2"

\* validateApiKey: the user id of the key's owner, or Undefined (null) for
\* a key that is not valid.
validateApiKey(apiKey) ==
    IF apiKey \in DOMAIN ApiKeyOwner THEN ApiKeyOwner[apiKey] ELSE Undefined

\* handleApiKeyRequest for a POST to /mcp: a request without a key or with
\* an invalid key is answered 401; otherwise the server is looked up or
\* created and the transport handles the body up to the first await of a
\* tool.
ApiKeyRequest(i, header, req) ==
    /\ inv[i].pc = "idle"
    /\ LET apiKey == ExtractApiKey(header)
           userId == validateApiKey(apiKey)
           c == [inv[i] EXCEPT !.credential = header]
       IN IF apiKey = ""
          THEN /\ inv' = [inv EXCEPT ![i] = Return(c, "missing_authorization")]
               /\ CacheUnchanged
          ELSE IF userId = Undefined
          THEN /\ inv' = [inv EXCEPT ![i] = Return(c, "invalid_api_key")]
               /\ CacheUnchanged
          ELSE \E now \in {clock, clock + 1} :
                 LET got == getOrCreateServer(serverCache, userId, now)
                     r == [c EXCEPT !.userId = userId, !.request = req,
                                    !.cacheHit = got.hit]
                 IN /\ clock' = now
                    /\ serverCache' = got.cache
                    /\ inv' = [inv EXCEPT ![i] = handleHTTPTransport(i, r, req)]
    /\ LedgerUnchanged
    /\ SessionsUnchanged

\* this.props?.userId of the OAuth agent: absent, or the signed-in user.
PropsUserIds == Users \cup {Undefined}

\* server.ts: the callback of a registered paid tool throws when the
\* authentication context has no user id, and otherwise hands the call to
\* executeToolWithTokenConsumption.
ToolCallback(i, propsUserId, tool) ==
    /\ inv[i].pc = "idle"
    /\ LET c == [inv[i] EXCEPT !.credential = propsUserId, !.kind = "executor",
                               !.toolName = tool]
       IN inv' = [inv EXCEPT ![i] =
                    IF propsUserId = Undefined
                    THEN Return(c, "no_user_id")
                    ELSE [c EXCEPT !.pc = "check", !.serverName = SERVER_NAME,
                                   !.userId = propsUserId, !.toolCost = TOOL_COST,
                                   !.actionId = randomUUID(i, 0)]]
    /\ LedgerUnchanged
    /\ CacheUnchanged
    /\ SessionsUnchanged

\* Requests arriving at both entry points with any credential.
AuthNext ==
    \/ \E i \in Invocations, header \in AuthHeaders, req \in AuthRequests :
          ApiKeyRequest(i, header, req)
    \/ \E i \in Invocations, propsUserId \in PropsUserIds :
          ToolCallback(i, propsUserId, "getCurrencyRate")
    \/ \E i \in Invocations : DispatchStep(i)
    \/ \E i \in Invocations : FreeToolStep(i)
    \/ \E i \in Invocations : ConsumerStep(i)

AuthSpec == Init /\ [][AuthNext]_vars

\* -------------------------------------------------- OAuth callback

\* The state parameter of GET /callback: the encoded authorization request
\* of the client, one without a client id, or none at all.
CallbackStates == {"valid", "no_client_id", Undefined}
\* The code parameter: none, a code the identity provider does not know,
\* and codes of signed-in people (u0 has no row in the users table).
AuthCodes == {Undefined, "code-x", "code-u0", "code-u1", "code-u2"}

\* authenticateWithCode: the e-mail address of the person the code was
\* issued to, Undefined when the exchange throws.
authenticateWithCode(code) ==
    CASE code = "code-u0" -> "u0@example.com"
      [] code = "code-u1" -> "u1@example.com"
      [] code = "code-u2" -> "u2@example.com"
      [] OTHER -> Undefined

\* getUserByEmail: the user_id of the row with this e-mail address,
\* Undefined (null) when there is none.
getUserByEmail(us, email) ==
    CASE email = "u1@example.com" /\ "u1" \in DOMAIN us -> "u1"
      [] email = "u2@example.com" /\ "u2" \in DOMAIN us -> "u2"
      [] OTHER -> Undefined

\* GET /callback up to the exchange of the code: decoding a missing state
\* throws, a state without client id and a missing code are answered 400.
CallbackStart(i, state, code) ==
    /\ inv[i].pc = "idle"
    /\ LET c == [inv[i] EXCEPT !.kind = "callback", !.credential = code]
       IN inv' = [inv EXCEPT ![i] =
                    IF state = Undefined THEN Return(c, "server_error")
                    ELSE IF state = "no_client_id" THEN Return(c, "invalid_state")
                    ELSE IF code = Undefined THEN Return(c, "missing_code")
                    ELSE [c EXCEPT !.pc = "authenticate"]]
    /\ LedgerUnchanged
    /\ CacheUnchanged
    /\ SessionsUnchanged

\* The identity provider answers the exchange of the code.
Authenticate(i) ==
    /\ inv[i].pc = "authenticate"
    /\ inv' = [inv EXCEPT ![i] =
                 IF authenticateWithCode(@.credential) = Undefined
                 THEN Return(@, "invalid_authorization_code")
                 ELSE [@ EXCEPT !.pc = "lookup"]]
    /\ LedgerUnchanged
    /\ CacheUnchanged
    /\ SessionsUnchanged

\* The exchange fails for a reason of its own (the provider is down).
AuthenticateFail(i) ==
    /\ inv[i].pc = "authenticate"
    /\ inv' = [inv EXCEPT ![i] = Return(@, "invalid_authorization_code")]
    /\ LedgerUnchanged
    /\ CacheUnchanged
    /\ SessionsUnchanged

\* A lookup that lets a soft-deleted account through.
LookupUser_IgnoresDeleted(i) ==
    /\ inv[i].pc = "lookup"
    /\ LET dbUser == getUserByEmail(users, authenticateWithCode(inv[i].credential))
       IN inv' = [inv EXCEPT ![i] =
                    IF dbUser = Undefined THEN Return(@, "purchase_required")
                    ELSE [@ EXCEPT !.pc = "complete", !.userId = dbUser]]
    /\ LedgerUnchanged
    /\ CacheUnchanged
    /\ SessionsUnchanged

\* The user is looked up by e-mail: no row gives the purchase page, a
\* soft-deleted row the account-deleted page, both with status 403.
LookupUser(i) ==
    /\ inv[i].pc = "lookup"
    /\ LET dbUser == getUserByEmail(users, authenticateWithCode(inv[i].credential))
       IN inv' = [inv EXCEPT ![i] =
                    IF dbUser = Undefined THEN Return(@, "purchase_required")
                    ELSE IF users[dbUser].is_deleted THEN Return(@, "account_deleted")
                    ELSE [@ EXCEPT !.pc = "complete", !.userId = dbUser]]
    /\ LedgerUnchanged
    /\ CacheUnchanged
    /\ SessionsUnchanged

\* The query of getUserByEmail throws; the route answers 500.
LookupUserFail(i) ==
    /\ inv[i].pc = "lookup"
    /\ inv' = [inv EXCEPT ![i] = Return(@, "server_error")]
    /\ LedgerUnchanged
    /\ CacheUnchanged
    /\ SessionsUnchanged

\* completeAuthorization issues the grant with props.userId and
\* props.email of the row; the browser is sent back to the client.
CompleteAuthorization(i) ==
    /\ inv[i].pc = "complete"
    /\ inv' = [inv EXCEPT ![i] = Return(@, "authorized")]
    /\ LedgerUnchanged
    /\ CacheUnchanged
    /\ SessionsUnchanged

\* completeAuthorization throws; the route answers 500.
CompleteAuthorizationFail(i) ==
    /\ inv[i].pc = "complete"
    /\ inv' = [inv EXCEPT ![i] = Return([@ EXCEPT !.userId = ""], "server_error")]
    /\ LedgerUnchanged
    /\ CacheUnchanged
    /\ SessionsUnchanged

CallbackStep(i) ==
    \/ Authenticate(i)
    \/ AuthenticateFail(i)
    \/ LookupUser(i)
    \/ LookupUserFail(i)
    \/ CompleteAuthorization(i)
    \/ CompleteAuthorizationFail(i)

\* Browsers arriving at /callback.
CallbackNext ==
    \/ \E i \in Invocations, state \in CallbackStates, code \in AuthCodes :
          CallbackStart(i, state, code)
    \/ \E i \in Invocations : CallbackStep(i)

CallbackSpec == Init /\ [][CallbackNext]_vars

\* ------------------------------------------------ /authorize sessions

\* 72 * 60 * 60 * 1000 ms, the life of a session; the expirationTtl of the
\* key-value entry is the same 72 hours in seconds.
SESSION_TTL_MS == 72 * 60 * 60 * 1000
\* The values crypto.randomUUID() gives to session tokens, and a cookie
\* value that was never issued.
SessionTokens == {"s1", "s2"}
UnknownSession == "s0"
\* The workos_session cookie of a request: absent, or some token.
Cookies == {Undefined, UnknownSession} \cup SessionTokens
\* parseAuthRequest: the client's authorization request, or one that has
\* no client id.
OAuthRequests == {"valid", "no_client_id"}

\* The routes of the login never read the balance: every user starts with
\* the same balance; the session store may or may not be configured.
InitSessions ==
    /\ users \in [Users -> [current_token_balance : {MaxBalance},
                            total_tokens_used : {0},
                            total_tokens_purchased : {MaxBalance},
                            is_deleted : BOOLEAN]]
    /\ transactions = <<>>
    /\ mcp_actions = <<>>
    /\ inv = [i \in Invocations |-> IdleInvocation]
    /\ serverCache = <<>>
    /\ clock = 0
    /\ sessions \in [configured : BOOLEAN, store : {{}}]

\* The readings of the clock that are looked at: the first milliseconds
\* and those from the life of a session later on.
ClockReadings ==
    (0 .. MaxClock) \cup (SESSION_TTL_MS .. (SESSION_TTL_MS + MaxClock))

\* Time passes: a millisecond, or the life of a session.
Elapse(d) ==
    /\ clock + d \in ClockReadings
    /\ clock' = clock + d
    /\ UNCHANGED <<users, transactions, mcp_actions, inv, serverCache, sessions>>

\* The entries get() still returns.
LiveSessions == {s \in sessions.store : ~s.evicted}

\* customAuth.ts handleVerifyMagicAuthCode after a successful login of
\* user u: a session with a new token is put into the store, if one is
\* configured, to live 72 hours.
CreateSession(u) ==
    /\ sessions.configured
    /\ \E token \in SessionTokens :
          /\ \A s \in sessions.store : s.token # token
          /\ sessions' =
                [sessions EXCEPT !.store = @ \cup
                    {[token |-> token, user_id |-> u, created_at |-> clock,
                      expires_at |-> clock + SESSION_TTL_MS,
                      evicted |-> FALSE]}]
    /\ UNCHANGED <<users, transactions, mcp_actions, inv, serverCache, clock>>

\* The key-value store drops an entry whose expirationTtl has run out.
KvExpire(token) ==
    /\ \E s \in LiveSessions :
          /\ s.token = token
          /\ clock >= s.created_at + SESSION_TTL_MS
          /\ sessions' = [sessions EXCEPT !.store =
                             (@ \ {s}) \cup {[s EXCEPT !.evicted = TRUE]}]
    /\ UNCHANGED <<users, transactions, mcp_actions, inv, serverCache, clock>>

\* GET /authorize up to the read of the session: a request without client
\* id is answered 400; without a session cookie the browser is sent to
\* the custom login when the store is configured; with an unconfigured
\* store every request goes on to the identity provider.
AuthorizeStart(i, oauthReq, cookie) ==
    /\ inv[i].pc = "idle"
    /\ LET c == [inv[i] EXCEPT !.kind = "authorize", !.credential = cookie,
                               !.oauthReq = oauthReq]
       IN inv' = [inv EXCEPT ![i] =
                    IF oauthReq = "no_client_id" THEN Return(c, "invalid_request")
                    ELSE IF cookie = Undefined /\ sessions.configured
                    THEN Return(c, "login_redirect")
                    ELSE IF cookie # Undefined /\ sessions.configured
                    THEN [c EXCEPT !.pc = "session_lookup"]
                    ELSE Return(c, "idp_redirect")]
    /\ LedgerUnchanged
    /\ CacheUnchanged
    /\ SessionsUnchanged

\* A session check that does not look at expires_at.
AuthorizeCheck_NoExpiry(i) ==
    /\ inv[i].pc = "session_lookup"
    /\ LET found == {s \in LiveSessions : s.token = inv[i].credential}
       IN inv' = [inv EXCEPT ![i] =
                    IF found = {} THEN Return(@, "login_redirect")
                    ELSE Return(@, "idp_redirect")]
    /\ LedgerUnchanged
    /\ CacheUnchanged
    /\ SessionsUnchanged

\* The session read returns: an unknown session and one whose expires_at
\* lies before Date.now() are sent to the custom login, any other to the
\* identity provider.
AuthorizeCheck(i) ==
    /\ inv[i].pc = "session_lookup"
    /\ LET found == {s \in LiveSessions : s.token = inv[i].credential}
       IN inv' = [inv EXCEPT ![i] =
                    IF found = {} THEN Return(@, "login_redirect")
                    ELSE IF \E s \in found : s.expires_at < clock
                    THEN Return(@, "login_redirect")
                    ELSE Return(@, "idp_redirect")]
    /\ LedgerUnchanged
    /\ CacheUnchanged
    /\ SessionsUnchanged

\* Logins, the passing of time, and browsers arriving at /authorize.
AuthorizeNext ==
    \/ \E d \in {1, SESSION_TTL_MS} : Elapse(d)
    \/ \E u \in Users : CreateSession(u)
    \/ \E token \in SessionTokens : KvExpire(token)
    \/ \E i \in Invocations, oauthReq \in OAuthRequests, cookie \in Cookies :
          AuthorizeStart(i, oauthReq, cookie)
    \/ \E i \in Invocations : AuthorizeCheck(i)

AuthorizeSpec == InitSessions /\ [][AuthorizeNext]_vars

\* ------------------------------------------------------ ledger queries

UserActions(u) == SelectSeq(mcp_actions, LAMBDA a : a.user_id = u)
UserTransactions(u) == SelectSeq(transactions, LAMBDA t : t.user_id = u)
ActionsWithId(id) == SelectSeq(mcp_actions, LAMBDA a : a.action_id = id)
\* The transaction rows written by the calls of the requests in S.
TransactionsOf(S) == SelectSeq(transactions, LAMBDA t : t.transaction_id[2] \in S)

RECURSIVE SumConsumed(_)
SumConsumed(rows) ==
    IF rows = <<>> THEN 0 ELSE Head(rows).tokens_consumed + SumConsumed(Tail(rows))

RECURSIVE SumAmount(_)
SumAmount(rows) ==
    IF rows = <<>> THEN 0 ELSE Head(rows).token_amount + SumAmount(Tail(rows))

RECURSIVE SumCommits(_)
SumCommits(S) ==
    IF S = {} THEN 0
    ELSE LET i == CHOOSE x \in S : TRUE IN inv[i].nCommits + SumCommits(S \ {i})

DispatcherKinds == {"executor", "history", "apikey_history"}
\* The handlers behind the tools of the OAuth server (server.ts) and behind
\* tools/call of the API-key handler (handleToolsCall).
OAuthKinds == {"executor", "history"}
ApiKeyKinds == {"apikey_rate", "history"}
\* What an invocation has learnt about the upstream service.
UpstreamSeen(r) ==
    IF r.nExecutions = 0 THEN "unknown"
    ELSE IF r.executeFailed THEN "down" ELSE "up"
\* The tokens charged for invocation i and the rows it left in the two logs.
ChargedTokens(i) == SumConsumed(ActionsWithId(inv[i].actionId))
AuditRows(i) == <<Len(TransactionsOf({i})), Len(ActionsWithId(inv[i].actionId))>>
CaughtResults == {"tool_error", "rpc_internal_error", "fatal"}

\* ------------------------------------------------------------ properties

\* C1: however often consumeTokensWithRetry is invoked with one action id,
\* retries after an interrupted attempt included, the calls together commit
\* at most one batch, that is one balance decrement, one transaction row and
\* one action-log row; and exactly one of each once a call has returned
\* successfully.
C1_NoDoubleCharge ==
    \A key \in CallerKeys :
      LET callers == {i \in Invocations : inv[i].actionId = key}
          applied == <<SumCommits(callers), Len(TransactionsOf(callers)),
                       Len(ActionsWithId(key))>>
      IN /\ applied \in {<<0, 0, 0>>, <<1, 1, 1>>}
         /\ (\E i \in callers : inv[i].pc = "done" /\ inv[i].result = "success")
               => applied = <<1, 1, 1>>

\* Two calls with the same action id have both returned successfully, one of
\* them without committing anything.
C1_Witness ==
    \E i, j \in Invocations :
       /\ i # j
       /\ inv[i].kind = "direct" /\ inv[j].kind = "direct"
       /\ inv[i].actionId = inv[j].actionId
       /\ inv[i].pc = "done" /\ inv[i].result = "success" /\ inv[i].nCommits = 1
       /\ inv[j].pc = "done" /\ inv[j].result = "success" /\ inv[j].nCommits = 0

\* C2: in every state, also between the steps of running consumptions, each
\* user's balance is the purchased amount less the tokens of the user's
\* action-log rows, and the user's transaction rows match the action-log rows
\* in number and in total: no decrement without both rows, no row without
\* the decrement.
C2_AtomicConsumption ==
    \A u \in Users :
       /\ users[u].current_token_balance =
             users[u].total_tokens_purchased - SumConsumed(UserActions(u))
       /\ SumAmount(UserTransactions(u)) = -SumConsumed(UserActions(u))
       /\ Len(UserTransactions(u)) = Len(UserActions(u))

\* A batch has committed while its call and another consumption are still
\* running.
C2_Witness ==
    \E i, j \in Invocations :
       /\ i # j
       /\ inv[i].pc = "reread" /\ inv[i].nCommits = 1
       /\ inv[j].pc = "consume"
       /\ inv[j].userId = inv[i].userId

C4_CommitEffect ==
    [][\A i \in Invocations :
         (inv[i].pc = "consume" /\ inv'[i].pc = "reread") =>
            LET u == inv[i].userId
                n == inv[i].toolCost
                b == users[u].current_token_balance
            IN /\ users'[u].current_token_balance = b - n
               /\ \A v \in Users \ {u} : users'[v] = users[v]
               /\ Len(transactions') = Len(transactions) + 1
               /\ SubSeq(transactions', 1, Len(transactions)) = transactions
               /\ transactions'[Len(transactions')].user_id = u
               /\ transactions'[Len(transactions')].token_amount = -n
               /\ transactions'[Len(transactions')].balance_after = b - n
               /\ Len(mcp_actions') = Len(mcp_actions) + 1
               /\ SubSeq(mcp_actions', 1, Len(mcp_actions)) = mcp_actions
               /\ mcp_actions'[Len(mcp_actions')].user_id = u
               /\ mcp_actions'[Len(mcp_actions')].action_id = inv[i].actionId
               /\ mcp_actions'[Len(mcp_actions')].tokens_consumed = n
               /\ mcp_actions'[Len(mcp_actions')].success = 1]_vars

\* A consumption of more than the tool cost has just committed and returned.
C4_Witness ==
    \E i \in Invocations :
       /\ inv[i].pc = "done" /\ inv[i].result = "success"
       /\ inv[i].toolCost = MaxAmount
       /\ inv[i].nCommits = 1

\* C5: a getCurrencyHistory invocation whose date range fails the
\* pre-validation never reaches the balance check, the upstream call or the
\* Token Consumer, and ends with the validation error.
C5_InvalidNeverChecked ==
    \A i \in Invocations :
       (/\ inv[i].kind \in {"history", "apikey_history"}
        /\ PreValidation(inv[i].range) # "ok")
       => /\ inv[i].nChecks = 0
          /\ inv[i].nExecutions = 0
          /\ inv[i].nCommits = 0
          /\ inv[i].pc = "done" => inv[i].result = "validation_error"

\* C6: a finished tool invocation returned success exactly if one batch was
\* committed for it; an error result means that nothing was committed.
C6_SuccessIffCharged ==
    \A i \in Invocations :
       (inv[i].kind \in DispatcherKinds /\ inv[i].pc = "done")
       => /\ inv[i].result = "success" => inv[i].nCommits = 1
          /\ inv[i].result # "success" =>
                /\ inv[i].nCommits = 0
                /\ ActionsWithId(inv[i].actionId) = <<>>

\* C7: once the business logic has failed the invocation is over with an
\* error result; the callback ran once, the Token Consumer was never
\* entered and no row of either log stems from this invocation.
C7_ExecuteFailureNotCharged ==
    \A i \in Invocations :
       inv[i].executeFailed
       => /\ inv[i].pc = "done"
          /\ inv[i].result \in {"tool_error", "rpc_internal_error"}
          /\ inv[i].nExecutions = 1
          /\ inv[i].attempt = 0 /\ inv[i].nCommits = 0
          /\ ActionsWithId(inv[i].actionId) = <<>>
          /\ TransactionsOf({i}) = <<>>

\* The business logic failed for a user who passed the balance check.
C7_Witness ==
    \E i \in Invocations :
       /\ inv[i].executeFailed
       /\ inv[i].balanceCheck.sufficient
       /\ inv[i].kind = "executor"

\* C8: a consumption call that ended with a fatal error has committed
\* nothing.
C8_FatalLeavesNoCharge ==
    \A i \in Invocations :
       (inv[i].pc = "done" /\ inv[i].consumerError) => inv[i].nCommits = 0

\* C9: consumeTokensWithRetry never starts a fourth attempt, gives up with a
\* fatal error when the third has failed, and every call that has started
\* comes to an end.
C9_BoundedRetry ==
    /\ [](\A i \in Invocations :
            inv[i].kind = "direct" =>
               /\ inv[i].attempt <= MaxRetries
               /\ inv[i].attempt = MaxRetries =>
                     /\ inv[i].pc = "done"
                     /\ inv[i].result = "fatal"
                     /\ inv[i].consumerError)
    /\ \A i \in Invocations : (inv[i].pc = "consume") ~> (inv[i].pc = "done")

\* A call has given up after its third failed attempt.
C9_Witness ==
    \E i \in Invocations :
       /\ inv[i].kind = "direct"
       /\ inv[i].attempt = MaxRetries
       /\ inv[i].pc = "done" /\ inv[i].result = "fatal"

\* C10: for a soft-deleted user the balance check answers userDeleted and
\* not sufficient whatever the balance, the invocation ends with the
\* account-closed error, and neither the business logic nor the Token
\* Consumer runs.
C10_DeletedRejected ==
    \A i \in Invocations :
       (/\ inv[i].kind \in DispatcherKinds
        /\ users[inv[i].userId].is_deleted)
       => /\ checkBalance(users, inv[i].userId, inv[i].toolCost).userDeleted
          /\ ~checkBalance(users, inv[i].userId, inv[i].toolCost).sufficient
          /\ inv[i].nExecutions = 0
          /\ inv[i].attempt = 0 /\ inv[i].nCommits = 0
          /\ inv[i].pc \in {"check", "done"}
          /\ (inv[i].pc = "done" /\ inv[i].result \notin
                 (CaughtResults \cup {"validation_error"}))
             => /\ inv[i].result = "account_deleted"
                /\ inv[i].balanceCheck.userDeleted
                /\ ~inv[i].balanceCheck.sufficient

\* A soft-deleted user who holds enough tokens was turned away.
C10_Witness ==
    \E i \in Invocations :
       /\ inv[i].pc = "done" /\ inv[i].result = "account_deleted"
       /\ users[inv[i].userId].is_deleted
       /\ users[inv[i].userId].current_token_balance >= inv[i].toolCost

\* The step in which invocation i gets the answer of the Balance Checker.
BalanceReportedTo(i) ==
    /\ inv[i].pc = "check"
    /\ inv'[i].nChecks = inv[i].nChecks + 1
    /\ inv'[i].balanceCheck.required = inv[i].toolCost

\* C11: when the balance check finds an active user's balance below the
\* cost, the invocation ends at once with the insufficient-balance error,
\* whose text names the required amount and the balance just read, and the
\* ledger is untouched; an invocation rejected this way never ran the
\* business logic or the Token Consumer and no row stems from it.
C11_InsufficientRejected ==
    /\ [](\A i \in Invocations :
            (inv[i].kind \in DispatcherKinds /\ inv[i].result = "insufficient_tokens")
            => /\ inv[i].pc = "done"
               /\ inv[i].nExecutions = 0
               /\ inv[i].attempt = 0 /\ inv[i].nCommits = 0
               /\ ActionsWithId(inv[i].actionId) = <<>>
               /\ TransactionsOf({i}) = <<>>)
    /\ [][\A i \in Invocations :
            (/\ BalanceReportedTo(i)
             /\ ~users[inv[i].userId].is_deleted
             /\ users[inv[i].userId].current_token_balance < inv[i].toolCost)
            => /\ inv'[i].pc = "done"
               /\ inv'[i].result = "insufficient_tokens"
               /\ ResultText(inv'[i]) =
                     formatInsufficientTokensError(
                        inv[i].toolName,
                        users[inv[i].userId].current_token_balance,
                        inv[i].toolCost)
               /\ LedgerUnchanged]_vars

\* An active user with balance 0 was turned away: need 1, have 0.
C11_Witness ==
    \E i \in Invocations :
       /\ inv[i].pc = "done" /\ inv[i].result = "insufficient_tokens"
       /\ ~users[inv[i].userId].is_deleted
       /\ ResultText(inv[i]) =
             formatInsufficientTokensError(inv[i].toolName, 0, TOOL_COST)

\* C12: the two rejections are never mixed up: a check answered for a
\* soft-deleted user ends in the account-closed error also when the balance
\* is below the cost, a check answered for an active user with too few
\* tokens ends in the insufficient-balance error, and neither error is ever
\* held by an invocation of the other kind of user.
C12_NeverConflated ==
    /\ [](\A i \in Invocations :
            inv[i].kind \in DispatcherKinds
            => /\ inv[i].result = "account_deleted" => users[inv[i].userId].is_deleted
               /\ inv[i].result = "insufficient_tokens" =>
                     ~users[inv[i].userId].is_deleted)
    /\ [][\A i \in Invocations :
            BalanceReportedTo(i)
            => /\ users[inv[i].userId].is_deleted =>
                     inv'[i].result = "account_deleted"
               /\ (/\ ~users[inv[i].userId].is_deleted
                   /\ users[inv[i].userId].current_token_balance < inv[i].toolCost)
                  => inv'[i].result = "insufficient_tokens"]_vars

\* A soft-deleted user whose balance is also below the cost got the
\* account-closed error.
C12_Witness ==
    \E i \in Invocations :
       /\ inv[i].pc = "done" /\ inv[i].result = "account_deleted"
       /\ users[inv[i].userId].is_deleted
       /\ users[inv[i].userId].current_token_balance < inv[i].toolCost

\* C13: within one invocation the business logic runs only after the
\* balance check has answered that the balance suffices, and the Token
\* Consumer is entered only after the business logic has run once and
\* returned; no batch is committed before or without that.
C13_CheckExecuteConsume ==
    \A i \in Invocations :
       inv[i].kind \in DispatcherKinds
       => /\ (inv[i].pc = "execute" \/ inv[i].nExecutions > 0)
             => /\ inv[i].nChecks = 1
                /\ inv[i].balanceCheck.sufficient
                /\ ~inv[i].balanceCheck.userDeleted
          /\ (inv[i].pc \in {"consume", "reread"} \/ inv[i].attempt > 0
                 \/ inv[i].nCommits > 0 \/ TransactionsOf({i}) # <<>>
                 \/ ActionsWithId(inv[i].actionId) # <<>>)
             => /\ inv[i].nChecks = 1
                /\ inv[i].nExecutions = 1
                /\ ~inv[i].executeFailed

\* An invocation has been charged after its check and its execution.
C13_Witness ==
    \E i \in Invocations :
       /\ inv[i].kind \in DispatcherKinds
       /\ inv[i].nChecks = 1 /\ inv[i].nExecutions = 1 /\ inv[i].nCommits = 1
       /\ inv[i].pc = "done" /\ inv[i].result = "success"

\* The state of the per-invocation state machine an invocation is in.
\* BALANCE_CHECKED, CONSUMED and FAILED are passed through within the step
\* that leaves START or EXECUTING.
MachineState(r) ==
    CASE r.result = "account_deleted" -> "REJECTED_DELETED"
      [] r.result = "insufficient_tokens" -> "REJECTED_INSUFFICIENT"
      [] r.result # "none" -> "DONE"
      [] r.pc \in {"idle", "check"} -> "START"
      [] OTHER -> "EXECUTING"

TerminalStates == {"REJECTED_DELETED", "REJECTED_INSUFFICIENT", "DONE"}

\* START -> BALANCE_CHECKED -> {REJECTED_DELETED | REJECTED_INSUFFICIENT |
\* EXECUTING} and EXECUTING -> {CONSUMED | FAILED} -> DONE.
ListedEdges ==
    {<<"START", "REJECTED_DELETED">>, <<"START", "REJECTED_INSUFFICIENT">>,
     <<"START", "EXECUTING">>, <<"EXECUTING", "DONE">>}

\* C14 as stated: an invocation changes its state only along the listed
\* edges, so DONE is entered from EXECUTING only.
C14_ListedEdgesOnly ==
    [][\A i \in Invocations :
         inv[i].kind \in DispatcherKinds \cup {"none"}
         => \/ MachineState(inv'[i]) = MachineState(inv[i])
            \/ <<MachineState(inv[i]), MachineState(inv'[i])>> \in ListedEdges]_vars

\* C14 as amended: besides the listed edges an invocation may go from START
\* straight to DONE with an error result, when the pre-validation rejects
\* the input or the balance check throws, nothing having been executed or
\* charged; a terminal state is never left or changed; and every invocation
\* that has started reaches a terminal state.
C14_StateMachine ==
    /\ [][\A i \in Invocations :
            inv[i].kind \in DispatcherKinds \cup {"none"}
            => /\ \/ MachineState(inv'[i]) = MachineState(inv[i])
                  \/ <<MachineState(inv[i]), MachineState(inv'[i])>> \in ListedEdges
                  \/ /\ MachineState(inv[i]) = "START"
                     /\ MachineState(inv'[i]) = "DONE"
                     /\ inv'[i].result \in {"validation_error", CatchResult(inv'[i].kind)}
                     /\ inv'[i].nExecutions = 0 /\ inv'[i].nCommits = 0
               /\ MachineState(inv[i]) \in TerminalStates => inv'[i] = inv[i]
               /\ MachineState(inv'[i]) \in TerminalStates => inv'[i].pc = "done"]_vars
    /\ \A i \in Invocations :
          (inv[i].pc # "idle") ~> (MachineState(inv[i]) \in TerminalStates)

\* All three terminal states and both ways into DONE have been taken: one
\* invocation ended right after its pre-validation, another was rejected.
C14_Witness ==
    \E i, j \in Invocations :
       /\ inv[i].pc = "done" /\ inv[i].result = "validation_error"
       /\ inv[i].nChecks = 0
       /\ MachineState(inv[j]) \in {"REJECTED_DELETED", "REJECTED_INSUFFICIENT"}

\* C15: an invocation that came in through OAuth and one that came in
\* through the API key, of the same tool with the same arguments for the
\* same user, against the same ledger (nothing was charged to the user and
\* every balance read was answered) and the same upstream state, end with
\* the same kind of response.
C15_AdaptersAgree ==
    \A i, j \in Invocations :
       (/\ inv[i].kind \in OAuthKinds /\ inv[j].kind \in ApiKeyKinds
        /\ inv[i].toolName = inv[j].toolName
        /\ inv[i].userId = inv[j].userId
        /\ inv[i].range = inv[j].range
        /\ inv[i].pc = "done" /\ inv[j].pc = "done"
        /\ UserTransactions(inv[i].userId) = <<>>
        /\ inv[i].attempt = 0 /\ inv[j].attempt = 0
        /\ inv[i].nChecks = 1 => inv[i].balanceCheck.required = inv[i].toolCost
        /\ inv[j].nChecks = 1 => inv[j].balanceCheck.required = inv[j].toolCost
        /\ "unknown" \in {UpstreamSeen(inv[i]), UpstreamSeen(inv[j])}
              \/ UpstreamSeen(inv[i]) = UpstreamSeen(inv[j]))
       => inv[i].result = inv[j].result

\* C16: a successful call of a tool is charged the same number of tokens
\* and leaves the same number of rows in the two logs whether it came in
\* through OAuth or through the API key.
C16_SameCharge ==
    \A i, j \in Invocations :
       (/\ inv[i].kind \in OAuthKinds /\ inv[j].kind \in ApiKeyKinds
        /\ inv[i].toolName = inv[j].toolName
        /\ inv[i].pc = "done" /\ inv[i].result = "success"
        /\ inv[j].pc = "done" /\ inv[j].result = "success")
       => /\ ChargedTokens(i) = ChargedTokens(j)
          /\ AuditRows(i) = AuditRows(j)

\* C17 as stated: no user's balance is ever negative.
C17_BalanceNeverNegative ==
    \A u \in Users : users[u].current_token_balance >= 0

\* C17 as amended: a charge of the dispatcher workflow leaves the balance
\* at zero or above whenever nothing was charged to the user between the
\* invocation's balance check and its consumption; and while at most one
\* invocation of the workflow has been started for a user, the user's
\* balance is never negative.
C17_NonNegativeWhenSerialized ==
    /\ [](\A u \in Users :
            Cardinality({i \in Invocations : inv[i].userId = u}) <= 1
            => users[u].current_token_balance >= 0)
    /\ [][\A i \in Invocations :
            (/\ inv[i].kind \in DispatcherKinds
             /\ inv[i].pc = "consume" /\ inv'[i].pc = "reread"
             /\ users[inv[i].userId].current_token_balance =
                   inv[i].balanceCheck.currentBalance)
            => users'[inv[i].userId].current_token_balance >= 0]_vars

\* An invocation has spent the user's last token: the check saw exactly the
\* cost and the charge left zero.
C17_Witness ==
    \E i \in Invocations :
       /\ inv[i].kind \in DispatcherKinds
       /\ inv[i].nCommits = 1
       /\ inv[i].balanceCheck.currentBalance = inv[i].toolCost
       /\ users[inv[i].userId].current_token_balance = 0

\* C18: an invocation that has passed its balance check is never held up
\* by what other invocations have charged in the meantime: its batch can
\* always commit, whatever the balance has become; and when two invocations
\* for one user whose checks read the same balance have both returned
\* successfully, both were charged in full, also below zero.
C18_RaceTolerated ==
    /\ \A i \in Invocations :
          (/\ inv[i].kind \in DispatcherKinds
           /\ inv[i].pc = "consume"
           /\ ~AlreadyProcessed(mcp_actions, inv[i].actionId))
          => ENABLED ConsumeBatch(i)
    /\ \A i, j \in Invocations :
          (/\ i # j
           /\ inv[i].kind \in DispatcherKinds /\ inv[j].kind \in DispatcherKinds
           /\ inv[i].userId = inv[j].userId
           /\ inv[i].balanceCheck.currentBalance = inv[j].balanceCheck.currentBalance
           /\ inv[i].pc = "done" /\ inv[i].result = "success"
           /\ inv[j].pc = "done" /\ inv[j].result = "success")
          => /\ inv[i].nCommits = 1 /\ inv[j].nCommits = 1
             /\ users[inv[i].userId].current_token_balance <=
                   inv[i].balanceCheck.currentBalance
                      - inv[i].toolCost - inv[j].toolCost

\* Two invocations for a user with one token both passed the check, both
\* succeeded and both were charged: the balance is below zero.
C18_Witness ==
    \E i, j \in Invocations :
       /\ i # j
       /\ inv[i].userId = inv[j].userId
       /\ inv[i].balanceCheck.sufficient /\ inv[j].balanceCheck.sufficient
       /\ inv[i].balanceCheck.currentBalance < inv[i].toolCost + inv[j].toolCost
       /\ inv[i].pc = "done" /\ inv[i].result = "success" /\ inv[i].nCommits = 1
       /\ inv[j].pc = "done" /\ inv[j].result = "success" /\ inv[j].nCommits = 1
       /\ users[inv[i].userId].current_token_balance < 0

\* C19: when two invocations of the same tool for one user have both
\* succeeded, each has its own transaction row and its own action-log row,
\* the ids of the two differ, and the balance is the purchased amount less
\* the cost of every successful invocation of the user.
C19_TwoSeparateDeductions ==
    \A i, j \in Invocations :
       (/\ i # j
        /\ inv[i].kind \in DispatcherKinds /\ inv[j].kind \in DispatcherKinds
        /\ inv[i].userId = inv[j].userId
        /\ inv[i].toolName = inv[j].toolName
        /\ inv[i].pc = "done" /\ inv[i].result = "success"
        /\ inv[j].pc = "done" /\ inv[j].result = "success")
       => /\ inv[i].actionId # inv[j].actionId
          /\ Len(ActionsWithId(inv[i].actionId)) = 1
          /\ Len(ActionsWithId(inv[j].actionId)) = 1
          /\ Len(TransactionsOf({i})) = 1 /\ Len(TransactionsOf({j})) = 1
          /\ TransactionsOf({i})[1].transaction_id #
                TransactionsOf({j})[1].transaction_id
          /\ Len(UserTransactions(inv[i].userId)) = 2
          /\ Len(UserActions(inv[i].userId)) = 2
          /\ users[inv[i].userId].current_token_balance =
                users[inv[i].userId].total_tokens_purchased - 2 * TOOL_COST

\* getCurrencyRate was invoked twice at the same time for one user and both
\* invocations succeeded.
C19_Witness ==
    \E i, j \in Invocations :
       /\ i # j
       /\ inv[i].kind = "executor" /\ inv[j].kind = "executor"
       /\ inv[i].userId = inv[j].userId
       /\ inv[i].balanceCheck.currentBalance = inv[j].balanceCheck.currentBalance
       /\ inv[i].pc = "done" /\ inv[i].result = "success"
       /\ inv[j].pc = "done" /\ inv[j].result = "success"

\* C20: the Token Consumer does not look at the balance: a call with a
\* positive amount is never turned away for lack of tokens, and a batch
\* that commits an amount above the balance takes the whole amount, leaves
\* the balance below zero and appends both rows.
C20_NoSufficiencyCheck ==
    /\ [](\A i \in Invocations :
            (/\ inv[i].pc = "consume"
             /\ inv[i].toolCost > 0
             /\ ~AlreadyProcessed(mcp_actions, inv[i].actionId))
            => /\ ENABLED ConsumeBatch(i)
               /\ ~ENABLED ConsumeInvalid(i))
    /\ [][\A i \in Invocations :
            (/\ inv[i].pc = "consume" /\ inv'[i].pc = "reread"
             /\ inv[i].toolCost > users[inv[i].userId].current_token_balance)
            => /\ users'[inv[i].userId].current_token_balance =
                     users[inv[i].userId].current_token_balance - inv[i].toolCost
               /\ users'[inv[i].userId].current_token_balance < 0
               /\ Len(transactions') = Len(transactions) + 1
               /\ Len(mcp_actions') = Len(mcp_actions) + 1]_vars

\* deductTokens was called with more than the balance and returned
\* successfully, the balance now below zero.
C20_Witness ==
    \E i \in Invocations :
       /\ inv[i].kind = "deduct"
       /\ inv[i].pc = "done" /\ inv[i].result = "success"
       /\ users[inv[i].userId].current_token_balance < 0
       /\ users[inv[i].userId].current_token_balance + inv[i].toolCost >= 0

\* C21: a deductTokens call whose amount is not a positive integer, or
\* whose user, server or tool identifier is empty, commits nothing, leaves
\* no row in either log and ends with a fatal error.
C21_InvalidCallRejected ==
    \A i \in Invocations :
       (/\ inv[i].kind = "deduct"
        /\ \/ ~(inv[i].toolCost > 0 /\ IsInteger(inv[i].toolCost))
           \/ inv[i].userId = ""
           \/ inv[i].serverName = ""
           \/ inv[i].toolName = "")
       => /\ inv[i].nCommits = 0
          /\ TransactionsOf({i}) = <<>>
          /\ ActionsWithId(inv[i].actionId) = <<>>
          /\ inv[i].pc \in {"consume", "done"}
          /\ inv[i].pc = "done" => (inv[i].result = "fatal" /\ inv[i].consumerError)

\* C22: with the Token Consumer as the only writer, every user's balance
\* is the lifetime purchased less the lifetime used in every state, and
\* every step that changes a balance lowers it by what it adds to the
\* lifetime used and leaves the lifetime purchased alone.
C22_BalanceIsPurchasedLessUsed ==
    /\ [](\A u \in Users :
            users[u].current_token_balance =
               users[u].total_tokens_purchased - users[u].total_tokens_used)
    /\ [][\A u \in Users :
            /\ users[u].current_token_balance - users'[u].current_token_balance =
                  users'[u].total_tokens_used - users[u].total_tokens_used
            /\ users'[u].total_tokens_used >= users[u].total_tokens_used
            /\ users'[u].total_tokens_purchased = users[u].total_tokens_purchased]_vars

\* Two consumptions of different amounts have been committed for a user.
C22_Witness ==
    \E u \in Users :
       /\ Len(UserTransactions(u)) = 2
       /\ users[u].total_tokens_used = TOOL_COST + MaxAmount

\* C23: a balance check changes nothing in the ledger, and two checks for
\* the same user and the same cost with no write to the user's row between
\* them have the same answer.
C23_CheckHasNoSideEffects ==
    /\ [][\A i \in Invocations :
            (inv[i].pc = "check" /\ inv'[i].nChecks = inv[i].nChecks + 1)
            => LedgerUnchanged]_vars
    /\ [](\A i, j \in Invocations :
            (/\ inv[i].kind \in DispatcherKinds /\ inv[j].kind \in DispatcherKinds
             /\ inv[i].userId = inv[j].userId
             /\ inv[i].toolCost = inv[j].toolCost
             /\ inv[i].nChecks = 1 /\ inv[i].balanceCheck.required = inv[i].toolCost
             /\ inv[j].nChecks = 1 /\ inv[j].balanceCheck.required = inv[j].toolCost
             /\ users[inv[i].userId].total_tokens_used = 0)
            => inv[i].balanceCheck = inv[j].balanceCheck)

\* Two invocations have checked the balance of the same user, who holds
\* tokens, one after the other.
C23_Witness ==
    \E i, j \in Invocations :
       /\ i # j
       /\ inv[i].userId = inv[j].userId
       /\ inv[i].nChecks = 1 /\ inv[j].nChecks = 1
       /\ inv[i].balanceCheck.sufficient /\ inv[j].balanceCheck.sufficient
       /\ inv[i].balanceCheck.currentBalance > 0
       /\ users[inv[i].userId].total_tokens_used = 0

\* C24: a balance check for a user id without a row answers sufficient =
\* FALSE with currentBalance 0 instead of raising an error, and the
\* invocation ends with the insufficient-balance result.
C24_MissingUserInsufficient ==
    [][\A i \in Invocations :
         (BalanceReportedTo(i) /\ inv[i].userId \notin DOMAIN users)
         => /\ ~inv'[i].balanceCheck.sufficient
            /\ inv'[i].balanceCheck.currentBalance = 0
            /\ ~inv'[i].balanceCheck.userDeleted
            /\ inv'[i].pc = "done"
            /\ inv'[i].result = "insufficient_tokens"
            /\ inv'[i].result \notin CaughtResults
            /\ LedgerUnchanged]_vars

\* A user without a row was told: need 1, have 0.
C24_Witness ==
    \E i \in Invocations :
       /\ inv[i].userId = NoSuchUser
       /\ inv[i].pc = "done" /\ inv[i].result = "insufficient_tokens"
       /\ ResultText(inv[i]) =
             formatInsufficientTokensError(inv[i].toolName, 0, TOOL_COST)

\* The results a tool function hands back as a value: the tool result or an
\* isError tool result.
StructuredResults ==
    {"success", "validation_error", "account_deleted", "insufficient_tokens",
     "tool_error"}

\* C25: whatever goes wrong for the user (deleted account, insufficient
\* balance, validation failure, upstream failure, ledger failure), a tool
\* invocation ends with a structured result returned by the dispatcher and
\* never with an exception raised to the dispatcher's caller.
C25_NeverRaises ==
    \A i \in Invocations :
       (inv[i].kind \in DispatcherKinds /\ inv[i].pc = "done")
       => inv[i].result \in StructuredResults

\* A request that has been handed to the API-key adapter.
Received(i) == inv[i].request # NoRequest
\* A well-formed JSON-RPC 2.0 envelope.
WellFormed(req) == req.body = "object" /\ req.jsonrpc = "2.0"
\* The response is an error response with this code.
IsErrorWith(resp, code) ==
    /\ "error" \in DOMAIN resp
    /\ resp.error.code = code

\* A well-formed request names something the adapter does not have.
NamesUnknown(req) ==
    /\ WellFormed(req)
    /\ \/ req.method \notin Methods
       \/ /\ req.method = "tools/call"
          /\ req.name # Undefined
          /\ req.name \notin ToolNames

\* C27: a well-formed request that names an unknown method, or a tools/call
\* that names an unknown tool, is answered at once with the "not found"
\* error (-32601), and no tool runs for it: no balance check, no upstream
\* call and no charge.
C27_UnknownNotFound ==
    \A i \in Invocations :
        (Received(i) /\ NamesUnknown(inv[i].request)) =>
            /\ inv[i].pc = "done"
            /\ IsErrorWith(ResponseOf(inv[i]), METHOD_NOT_FOUND)
            /\ inv[i].nChecks = 0
            /\ inv[i].nExecutions = 0
            /\ inv[i].nCommits = 0

\* An unknown method and an unknown tool have both been answered.
C27_Witness ==
    /\ Received("r1") /\ inv["r1"].request.method = UnknownMethod
    /\ Received("r2") /\ inv["r2"].request.name = UnknownTool
    /\ \A i \in Invocations :
          /\ inv[i].pc = "done"
          /\ IsErrorWith(ResponseOf(inv[i]), METHOD_NOT_FOUND)

\* C28: when the business logic of a valid tools/call throws, the response
\* is an error whose code is the internal-error code (-32603), which is
\* not the invalid-parameters code (-32602).
C28_ExceptionIsInternalError ==
    \A i \in Invocations :
        ( /\ Received(i)
          /\ WellFormed(inv[i].request)
          /\ inv[i].request.method = "tools/call"
          /\ inv[i].request.name \in ToolNames
          /\ inv[i].executeFailed
          /\ inv[i].pc = "done" ) =>
            /\ IsErrorWith(ResponseOf(inv[i]), INTERNAL_ERROR)
            /\ ~IsErrorWith(ResponseOf(inv[i]), INVALID_PARAMS)

\* The response is one of the two framing errors.
IsFramingError(resp) ==
    IsErrorWith(resp, PARSE_ERROR) \/ IsErrorWith(resp, INVALID_REQUEST)

\* C29: a malformed envelope (a body that is not a JSON-RPC 2.0 object) is
\* answered with a framing error and ends only that request: nothing is
\* checked, executed or charged for it, the step that handles it leaves the
\* ledger and every other request as they were, and afterwards a request of
\* any user can still be taken up.
C29_MalformedOnlyFailsItself ==
    /\ [](\A i \in Invocations :
            (Received(i) /\ ~WellFormed(inv[i].request)) =>
                /\ inv[i].pc = "done"
                /\ IsFramingError(ResponseOf(inv[i]))
                /\ inv[i].nChecks = 0
                /\ inv[i].nExecutions = 0
                /\ inv[i].nCommits = 0
                /\ \A j \in Invocations, u \in Users, req \in Requests :
                      inv[j].pc = "idle" => ENABLED HandleApiKeyRequest(j, u, req))
    /\ [][\A i \in Invocations :
            (~Received(i) /\ Received(i)' /\ ~WellFormed(inv[i].request')) =>
                /\ LedgerUnchanged
                /\ \A j \in Invocations \ {i} : inv[j]' = inv[j]]_vars

\* After r1's malformed request was answered, r2's paid tool call of the
\* same user found the server r1's request had cached, ran and was charged.
C29_Witness ==
    /\ Received("r1") /\ ~WellFormed(inv["r1"].request)
    /\ ~inv["r1"].cacheHit
    /\ inv["r2"].userId = inv["r1"].userId
    /\ inv["r2"].cacheHit
    /\ inv["r2"].request.name = "getCurrencyHistory"
    /\ inv["r2"].result = "success"
    /\ inv["r2"].nCommits = 1

\* The response has exactly one of the members result and error, and an
\* error has a code and a message.
OneOfResultOrError(resp) ==
    /\ ("result" \in DOMAIN resp) # ("error" \in DOMAIN resp)
    /\ "error" \in DOMAIN resp => DOMAIN resp.error = {"code", "message"}

\* The response carries the id the request gave, and none if it gave none.
CarriesRequestId(resp, req) ==
    IF req.id = Undefined THEN "id" \notin DOMAIN resp
    ELSE "id" \in DOMAIN resp /\ resp.id = req.id

\* C30: every response carries the id of the request it answers and
\* exactly one of a result or an error made of a code and a message.
C30_ResponseEnvelope ==
    \A i \in Invocations :
        (Received(i) /\ inv[i].pc = "done") =>
            /\ CarriesRequestId(ResponseOf(inv[i]), inv[i].request)
            /\ OneOfResultOrError(ResponseOf(inv[i]))

\* How the storage and upstream calls a finished request awaited came out:
\* the balance it read, whether the upstream call threw, whether its
\* consumption committed and whether the consumer gave up.
Observed(r) == <<r.balanceCheck, r.executeFailed, r.nCommits, r.consumerError>>

\* C26: whether a user's server instance is found in the cache, is missing
\* or was evicted never changes what a request does: two requests of the
\* same user with the same body whose storage and upstream calls came out
\* the same get the same response after the same checks and executions,
\* one served from the cache and one not.  The cache holds server instances only, never ledger
\* data; no ledger write touches it, and clearing it touches neither the
\* ledger nor any request.
C26_CacheNeverChangesBehaviour ==
    /\ [](\A i, j \in Invocations :
            ( /\ Received(i) /\ Received(j)
              /\ inv[i].pc = "done" /\ inv[j].pc = "done"
              /\ inv[i].userId = inv[j].userId
              /\ inv[i].request = inv[j].request
              /\ Observed(inv[i]) = Observed(inv[j]) ) =>
                /\ ResponseOf(inv[i]) = ResponseOf(inv[j])
                /\ inv[i].nChecks = inv[j].nChecks
                /\ inv[i].nExecutions = inv[j].nExecutions)
    /\ [](\A n \in 1 .. Len(serverCache) :
            /\ DOMAIN serverCache[n].value = {"userId", "tools"}
            /\ serverCache[n].value.userId = serverCache[n].key)
    /\ [][serverCache' # serverCache => LedgerUnchanged]_vars
    /\ [][(serverCache # <<>> /\ serverCache' = <<>>) => inv' = inv]_vars

\* The same paid call of one user succeeded twice, first building the
\* server and then finding it cached, and the cache has since been cleared.
C26_Witness ==
    /\ inv["r1"].request.name = "getCurrencyHistory"
    /\ inv["r2"].request = inv["r1"].request
    /\ inv["r2"].userId = inv["r1"].userId
    /\ ~inv["r1"].cacheHit /\ inv["r2"].cacheHit
    /\ inv["r1"].result = "success" /\ inv["r2"].result = "success"
    /\ Observed(inv["r1"]) = Observed(inv["r2"])
    /\ serverCache = <<>>

\* The invocation has been taken up by one of the two entry points.
Arrived(i) == inv[i].pc # "idle"
\* The credential the invocation came with is missing or not valid: no
\* issued key in the Authorization header, or no user id in the props.
BadCredential(r) ==
    IF r.kind = "executor" THEN r.credential \notin Users
    ELSE r.credential \notin {"Bearer key-u1", "Bearer key-u2"}
\* The rows of both logs written for the invocations in S.
RowsOf(S) ==
    Len(TransactionsOf(S)) + Len(SelectSeq(mcp_actions, LAMBDA a : a.action_id[2] \in S))

\* C31: a request with a missing or invalid credential is turned away
\* before the ledger: it is over at once, no balance check, no tool
\* execution and no consumption happens for it, no row is written for it,
\* and the step that rejects it leaves the ledger and the cache untouched.
C31_BadCredentialNeverReachesLedger ==
    /\ [](\A i \in Invocations :
            (Arrived(i) /\ BadCredential(inv[i])) =>
                /\ inv[i].pc = "done"
                /\ inv[i].result \in {"missing_authorization", "invalid_api_key",
                                       "no_user_id"}
                /\ inv[i].nChecks = 0
                /\ inv[i].nExecutions = 0
                /\ inv[i].nCommits = 0
                /\ RowsOf({i}) = 0)
    /\ [][\A i \in Invocations :
            (~Arrived(i) /\ Arrived(i)' /\ BadCredential(inv[i]')) =>
                LedgerUnchanged /\ CacheUnchanged]_vars

\* One request came without a usable key and one with props that hold no
\* user id; both were rejected and the ledger has no row.
C31_Witness ==
    /\ inv["r1"].credential = "Bearer key-x"
    /\ inv["r1"].result = "invalid_api_key"
    /\ inv["r2"].kind = "executor"
    /\ inv["r2"].credential = Undefined
    /\ inv["r2"].result = "no_user_id"
    /\ transactions = <<>> /\ mcp_actions = <<>>

\* No invocation is under way.
Quiescent == \A i \in Invocations : inv[i].pc \in {"idle", "done"}
\* The paid tool invocations of user u that returned a success result.
Successes(u) ==
    {i \in Invocations : /\ inv[i].kind \in DispatcherKinds
                         /\ inv[i].userId = u
                         /\ inv[i].pc = "done"
                         /\ inv[i].result = "success"}

\* C32: once the invocations made so far are over, each user has as many
\* usage transaction rows as action-log rows and as many as paid
\* invocations that returned success, and an invocation that was rejected
\* or failed has no row in either log.
C32_RowsMatchSuccesses ==
    Quiescent =>
        /\ \A u \in Users :
              /\ Len(UserTransactions(u)) = Len(UserActions(u))
              /\ Len(UserActions(u)) = Cardinality(Successes(u))
        /\ \A i \in Invocations :
              (inv[i].pc = "done" /\ inv[i].result # "success") => RowsOf({i}) = 0

\* The action-log rows written by the consumption attempts of invocation i.
ActionRowsBy(i) == SelectSeq(mcp_actions, LAMBDA a : a.action_id[2] = i)

\* C33: every paid tool invocation draws an action id of its own and keeps
\* it for all its consumption attempts; two invocations never have the
\* same id, so an invocation that repeats another one with the same
\* arguments is charged by a batch of its own and never passes for a
\* duplicate of the first.
C33_FreshActionIdPerInvocation ==
    /\ [](\A i, j \in Invocations :
            (i # j /\ inv[i].actionId # NoId /\ inv[j].actionId # NoId) =>
                inv[i].actionId # inv[j].actionId)
    /\ [](\A i \in Invocations :
            /\ \A n \in 1 .. Len(ActionRowsBy(i)) :
                  ActionRowsBy(i)[n].action_id = inv[i].actionId
            /\ (inv[i].kind \in DispatcherKinds /\ inv[i].result = "success") =>
                  /\ inv[i].nCommits = 1
                  /\ Len(ActionsWithId(inv[i].actionId)) = 1)
    /\ [][\A i \in Invocations :
            inv[i].actionId # NoId => inv[i].actionId' = inv[i].actionId]_vars

\* The same user called the same tool twice; the second call needed more
\* than one consumption attempt, and both calls were charged under two
\* different action ids.
C33_Witness ==
    /\ inv["r1"].kind = "executor" /\ inv["r2"].kind = "executor"
    /\ inv["r1"].userId = inv["r2"].userId
    /\ inv["r1"].toolName = inv["r2"].toolName
    /\ inv["r1"].result = "success" /\ inv["r2"].result = "success"
    /\ inv["r2"].attempt > 0
    /\ inv["r1"].actionId # inv["r2"].actionId
    /\ Len(UserActions(inv["r1"].userId)) = 2

\* C34: whatever get and set operations are made, the cache never holds
\* more entries than the maximum it was built with, and never two entries
\* for one key.
C34_CacheBounded ==
    /\ Len(serverCache) <= CacheCapacity
    /\ Cardinality(CacheKeys(serverCache)) = Len(serverCache)

\* The cache is full of entries used at the last reading of the clock:
\* setting a further key evicts one of them and leaves the cache full.
C34_Witness ==
    /\ Len(serverCache) = CacheCapacity
    /\ clock = MaxClock
    /\ \A n \in 1 .. Len(serverCache) : serverCache[n].lastAccessed = MaxClock
    /\ \E key \in LruKeys \ CacheKeys(serverCache) :
          Len(CacheSet(serverCache, CacheCapacity, key, NewMcpServer(key), clock))
             = CacheCapacity

\* The cache after get(key) directly followed by set(newKey).
AfterGetThenSet(cache, key, newKey, now) ==
    CacheSet(CacheTouch(cache, key, now), CacheCapacity, newKey,
             NewMcpServer(newKey), now)

\* C35: a set of a new key into a full cache evicts an entry that no other
\* entry is older than, and a get counts as a use: the entry just read is
\* not the one evicted by the set that follows while another entry is
\* there to go.
C35_EvictsLeastRecentlyUsed ==
    /\ [][\A n \in 1 .. Len(serverCache) :
            serverCache[n].key \notin CacheKeys(serverCache') =>
                \A m \in 1 .. Len(serverCache) :
                    serverCache[n].lastAccessed <= serverCache[m].lastAccessed]_vars
    /\ [](\A key \in CacheKeys(serverCache), newKey \in LruKeys \ CacheKeys(serverCache) :
            (Len(serverCache) = CacheCapacity /\ Len(serverCache) >= 2) =>
                key \in CacheKeys(AfterGetThenSet(serverCache, key, newKey, clock)))

\* The span of the requested range, from startDate to endDate, in seconds.
Span(r) == r.times[2] - r.times[1]
\* The pre-validation turned the request away before the balance check.
RejectedByValidation(r) ==
    r.pc = "done" /\ r.result = "validation_error" /\ r.nChecks = 0
\* The request went on to the balance check.
ReachedBalanceCheck(r) == r.pc = "check" \/ r.nChecks > 0

\* C36: the pre-validation of getCurrencyHistory rejects a request exactly
\* when the span from startDate to endDate is more than 93 days or endDate
\* lies before startDate; a request with a span of 0 to 93 days goes on to
\* the balance check.
C36_RejectsExactlyBadRanges ==
    \A i \in Invocations :
        (inv[i].kind = "history" /\ inv[i].pc # "idle") =>
            IF \/ Span(inv[i]) > MAX_RANGE_DAYS * SECONDS_PER_DAY
               \/ Span(inv[i]) < 0
            THEN RejectedByValidation(inv[i])
            ELSE ReachedBalanceCheck(inv[i])

\* The body of the request is JSON text.
ParsesAsJson(req) == req.body # "garbage"

\* C37: the parse-error code (-32700) answers only a body that is not
\* JSON; a body that is JSON but no valid envelope is answered with the
\* invalid-request code (-32600); a request that reached a method handler
\* is never answered with the parse-error code.
C37_ParseErrorOnlyForUnparseable ==
    \A i \in Invocations :
        (Received(i) /\ inv[i].pc = "done") =>
            /\ IsErrorWith(ResponseOf(inv[i]), PARSE_ERROR) =>
                  ~ParsesAsJson(inv[i].request)
            /\ (ParsesAsJson(inv[i].request) /\ ~WellFormed(inv[i].request)) =>
                  IsErrorWith(ResponseOf(inv[i]), INVALID_REQUEST)
            /\ WellFormed(inv[i].request) =>
                  ~IsErrorWith(ResponseOf(inv[i]), PARSE_ERROR)

\* The person behind the code is authenticated, has a row in the users
\* table and the row is not soft-deleted.
Eligible(r) ==
    LET dbUser == getUserByEmail(users, authenticateWithCode(r.credential))
    IN /\ authenticateWithCode(r.credential) # Undefined
       /\ dbUser # Undefined
       /\ ~users[dbUser].is_deleted
\* The responses of /callback that grant nothing.
ErrorPages ==
    {"server_error", "invalid_state", "missing_code",
     "invalid_authorization_code", "purchase_required", "account_deleted"}

\* C38: the OAuth callback completes the authorization, with props that
\* hold the user id of the database row, only for an authenticated user
\* who has a row in the token database that is not soft-deleted; every
\* other callback ends with an error page and grants nothing.
C38_CallbackAuthorizesOnlyValidUsers ==
    \A i \in Invocations :
        inv[i].kind = "callback" =>
            /\ inv[i].pc = "complete" => Eligible(inv[i])
            /\ inv[i].result = "authorized" =>
                  /\ Eligible(inv[i])
                  /\ inv[i].userId =
                        getUserByEmail(users, authenticateWithCode(inv[i].credential))
            /\ (inv[i].pc = "done" /\ inv[i].result # "authorized") =>
                  /\ inv[i].result \in ErrorPages
                  /\ inv[i].userId = ""
            /\ (inv[i].pc = "done" /\ ~Eligible(inv[i])) =>
                  inv[i].result \in ErrorPages

\* One callback was authorized for an active user; another, of a person
\* whose account is soft-deleted, got the account-deleted page.
C38_Witness ==
    /\ inv["r1"].kind = "callback" /\ inv["r1"].result = "authorized"
    /\ inv["r1"].userId = "u1" /\ ~users["u1"].is_deleted
    /\ inv["r2"].kind = "callback" /\ inv["r2"].result = "account_deleted"
    /\ inv["r2"].credential = "code-u2" /\ users["u2"].is_deleted

\* The token names a session that is in the store and has not expired.
ValidSession(token) ==
    \E s \in LiveSessions :
        s.token = token /\ clock <= s.created_at + SESSION_TTL_MS
\* This step answers the /authorize request i.
AuthorizeAnswered(i) ==
    /\ inv[i].pc # "done"
    /\ inv[i].pc' = "done"
    /\ inv[i].kind' = "authorize"

\* C39: with the session store configured, /authorize sends the browser to
\* the identity provider only if the request's session token is in the
\* store and not expired, 72 hours after its creation at the latest; a
\* request with a missing, unknown or expired session is always sent to
\* the custom login page.
C39_SessionGate ==
    [][\A i \in Invocations :
          (AuthorizeAnswered(i) /\ sessions.configured) =>
              /\ inv[i].result' = "idp_redirect" => ValidSession(inv[i].credential')
              /\ ~ValidSession(inv[i].credential') =>
                    inv[i].result' = "login_redirect"]_vars

\* C39, amended: with the session store configured, /authorize sends the
\* browser to the identity provider only if the request's session token is
\* in the store and not expired; an authorization request without client
\* id is answered 400 whatever its session, and every other request with
\* a missing, unknown or expired session is sent to the custom login page.
C39_SessionGateForValidRequests ==
    [][\A i \in Invocations :
          (AuthorizeAnswered(i) /\ sessions.configured) =>
              /\ inv[i].result' = "idp_redirect" => ValidSession(inv[i].credential')
              /\ inv[i].oauthReq' = "no_client_id" =>
                    inv[i].result' = "invalid_request"
              /\ (inv[i].oauthReq' = "valid" /\ ~ValidSession(inv[i].credential')) =>
                    inv[i].result' = "login_redirect"]_vars

\* A request with a session was sent on to the identity provider; later a
\* request with the cookie of a session that is still stored but past its
\* expiry was sent to the custom login.
C39_Witness ==
    /\ sessions.configured
    /\ inv["r1"].kind = "authorize" /\ inv["r1"].result = "idp_redirect"
    /\ inv["r2"].kind = "authorize" /\ inv["r2"].result = "login_redirect"
    /\ inv["r2"].oauthReq = "valid"
    /\ inv["r2"].credential = inv["r1"].credential
    /\ \E s \in LiveSessions :
          s.token = inv["r2"].credential /\ s.expires_at < clock

====
